---- MODULE Spec2Model ----
(***************************************************************************)
(* State-machine model of the SOP acknowledgment / training application    *)
(* (app/main.py, app/learning.py, app/db.py, scripts/import_sops.py).      *)
(*                                                                         *)
(* The database tables are the state.  Every request handler is one        *)
(* action; a handler runs on its own connection and commits at its end, so *)
(* an action is one handler from its first read to its last write          *)
(* (including the audit row written by _log_action).                       *)
(*                                                                         *)
(* Time is the UTC clock in seconds since the start of day 0.  SQLite's    *)
(* datetime('now') and Python's date.today()/datetime.utcnow() all read    *)
(* this one clock (the server is taken to run in UTC).                     *)
(***************************************************************************)
EXTENDS Integers, Sequences, FiniteSets, TLC

VARIABLES
    users,               \* table users: id -> [role, staff_id]   (0 = NULL)
    staff,               \* table staff: id -> [name, normalized_name, active]
    sops,                \* table sops: id -> [title, category, content, current_version]
    sops_seq,            \* sqlite_sequence of sops (AUTOINCREMENT never reuses an id)
    sop_versions,        \* table sop_versions, in id order
    acknowledgments,     \* table acknowledgments, in id order
    training_modules,    \* table training_modules: id -> [sop_id, passing_score, recert_days, active]
    training_questions,  \* table training_questions: module_id -> correct_option ("" = no row)
    training_attempts,   \* table training_attempts, in id order
    audit_log,           \* table audit_log, in id order
    now,                 \* the clock, in seconds
    response,            \* what the last request returned
    threads              \* the requests being handled, one per worker thread

vars == <<users, staff, sops, sops_seq, sop_versions, acknowledgments,
          training_modules, training_questions, training_attempts,
          audit_log, now, response, threads>>

docVars == <<sops, sops_seq, sop_versions>>
learnVars == <<training_modules, training_questions, training_attempts>>

-----------------------------------------------------------------------------
(* Configuration (environment defaults)                                    *)

REACK_DAYS == 365
MIN_READ_SECONDS == 10
QUIZ_MAX_ATTEMPTS == 3
QUIZ_LOCKOUT_HOURS == 24

SecondsPerHour == 3600
SecondsPerDay == 86400

-----------------------------------------------------------------------------
(* Bounds of the model                                                     *)

MaxAudit == 4        \* audited (state-changing) requests per behaviour

MaxThreads == 2      \* worker threads handling requests in parallel

-----------------------------------------------------------------------------
(* Small helpers                                                           *)

NULL == 0

Range(s) == {s[i] : i \in DOMAIN s}

Max(S) == CHOOSE x \in S : \A y \in S : y <= x

Min(S) == CHOOSE x \in S : \A y \in S : x <= y

\* date(ts): the calendar day of a timestamp (SQLite date(), Python
\* date.fromisoformat(ts.split(" ")[0]), datetime.strptime(...).date()).
DateOf(ts) == ts \div SecondsPerDay

\* date.today()
Today == DateOf(now)

-----------------------------------------------------------------------------
(* Rosters present when the application is put to use: the default admin   *)
(* (no staff link) and one user per staff member.                          *)

StaffNames == <<"Alice", "Bob">>

lower(name) == CASE name = "Alice" -> "alice"
                 [] name = "Bob" -> "bob"
                 [] OTHER -> name

InitStaff == [i \in 1..Len(StaffNames) |->
                [name |-> StaffNames[i], normalized_name |-> lower(StaffNames[i]), active |-> 1]]

InitUsers == [u \in 1..(Len(StaffNames) + 1) |->
                IF u = 1 THEN [role |-> "admin", staff_id |-> NULL]
                         ELSE [role |-> "staff", staff_id |-> u - 1]]

\* a worker thread with no request
Idle == [handler |-> "none", pc |-> "idle", request |-> <<>>, locals |-> <<>>]

NoRequests == [t \in 1..MaxThreads |-> Idle]

Admins == {u \in DOMAIN users : users[u].role = "admin"}

Init ==
    /\ users = InitUsers
    /\ staff = InitStaff
    /\ sops = <<>>
    /\ sops_seq = 0
    /\ sop_versions = <<>>
    /\ acknowledgments = <<>>
    /\ training_modules = <<>>
    /\ training_questions = <<>>
    /\ training_attempts = <<>>
    /\ audit_log = <<>>
    /\ now = 0
    /\ response = [handler |-> "none", request |-> <<>>, result |-> <<>>]
    /\ threads = NoRequests

-----------------------------------------------------------------------------
(* _log_action                                                             *)

_log_action(actor_id, action, entity_type, entity_id, details) ==
    Append(audit_log, [actor_user_id |-> actor_id, action |-> action,
                       entity_type |-> entity_type, entity_id |-> entity_id,
                       details |-> details])

\* a handler's RedirectResponse(url, status_code)
Response(handler, request, status, url) ==
    [handler |-> handler, request |-> request, result |-> <<status, url>>]

\* the value a function call returns
Returned(function, arguments, value) ==
    [handler |-> function, request |-> arguments, result |-> value]

-----------------------------------------------------------------------------
(* VersionedDocumentStore: admin_create, admin_update                      *)

SopIds == DOMAIN sops

\* INSERT INTO sops (title, category, content): current_version takes the
\* column default.
DefaultCurrentVersion == 1

SopRow(title, category, content, version) ==
    [title |-> title, category |-> category, content |-> content,
     current_version |-> version]

VersionRow(sop_id, version, title, category, content, created_by) ==
    [sop_id |-> sop_id, version |-> version, title |-> title,
     category |-> category, content |-> content, created_by |-> created_by]

\* the version number written by admin_create's snapshot
FirstVersion == 1

\* new_version = existing["current_version"] + 1
NewVersionStale(existing) == existing.current_version

NewVersion(existing) == existing.current_version + 1

admin_create(u, title, category, content) ==
    /\ u \in Admins
    /\ LET sop_id == sops_seq + 1 IN
        /\ sops' = sops @@ (sop_id :> SopRow(title, category, content, DefaultCurrentVersion))
        /\ sops_seq' = sop_id
        /\ sop_versions' = Append(sop_versions,
                VersionRow(sop_id, FirstVersion, title, category, content, u))
        /\ audit_log' = _log_action(u, "create", "sop", sop_id, title)
        /\ response' = Response("admin_create", <<u, sop_id>>, 303, "/admin")
    /\ UNCHANGED <<threads, users, staff, acknowledgments, learnVars, now>>

admin_update_upsert(u, sop_id, title, category, content) ==
    /\ u \in Admins
    /\ LET new_version == IF sop_id \in SopIds THEN NewVersion(sops[sop_id])
                                                ELSE FirstVersion IN
        /\ sops' = [id \in SopIds \cup {sop_id} |->
                        IF id = sop_id THEN SopRow(title, category, content, new_version)
                                       ELSE sops[id]]
        /\ sops_seq' = Max({sops_seq, sop_id})
        /\ sop_versions' = Append(sop_versions,
                VersionRow(sop_id, new_version, title, category, content, u))
        /\ audit_log' = _log_action(u, "update", "sop", sop_id, new_version)
        /\ response' = Response("admin_update", <<u, sop_id>>, 303, "/admin")
    /\ UNCHANGED <<threads, users, staff, acknowledgments, learnVars, now>>

admin_update(u, sop_id, title, category, content) ==
    /\ u \in Admins
    /\ IF sop_id \notin SopIds
       THEN /\ response' = Response("admin_update", <<u, sop_id>>, 302, "/admin")
            /\ UNCHANGED <<docVars, audit_log>>
       ELSE /\ LET existing == sops[sop_id]
                   new_version == NewVersion(existing) IN
                /\ sops' = [sops EXCEPT ![sop_id] =
                                SopRow(title, category, content, new_version)]
                /\ sop_versions' = Append(sop_versions,
                        VersionRow(sop_id, new_version, title, category, content, u))
                /\ audit_log' = _log_action(u, "update", "sop", sop_id, new_version)
                /\ response' = Response("admin_update", <<u, sop_id>>, 303, "/admin")
            /\ UNCHANGED sops_seq
    /\ UNCHANGED <<threads, users, staff, acknowledgments, learnVars, now>>

-----------------------------------------------------------------------------
(* AcknowledgmentLedger: acknowledge                                       *)

AckRow(sop_id, staff_id, sop_version, staff_name, read_seconds) ==
    [sop_id |-> sop_id, staff_id |-> staff_id, sop_version |-> sop_version,
     staff_name |-> staff_name, read_seconds |-> read_seconds,
     acknowledged_at |-> now]

\* the sop_version column of the inserted row: sop["current_version"]
AckVersionDefault(sop) == 1

AckVersion(sop) == sop.current_version

\* the anti-gaming gate: int(read_seconds) < MIN_READ_SECONDS rejects
BelowMinimumReadTimeNever(read_seconds) == FALSE

BelowMinimumReadTime(read_seconds) == read_seconds < MIN_READ_SECONDS

acknowledge(u, sop_id, read_seconds) ==
    /\ u \in DOMAIN users
    /\ LET user == users[u]
           rejected == Response("acknowledge", <<u, sop_id, read_seconds>>, 303, "/sop/{sop_id}") IN
        IF user.staff_id = NULL
        THEN /\ response' = rejected
             /\ UNCHANGED <<acknowledgments, audit_log>>
        ELSE IF user.staff_id \notin DOMAIN staff \/ sop_id \notin SopIds
        THEN /\ response' = rejected
             /\ UNCHANGED <<acknowledgments, audit_log>>
        ELSE IF BelowMinimumReadTime(read_seconds)
        THEN /\ response' = rejected
             /\ UNCHANGED <<acknowledgments, audit_log>>
        ELSE /\ acknowledgments' = Append(acknowledgments,
                    AckRow(sop_id, user.staff_id, AckVersion(sops[sop_id]),
                           staff[user.staff_id].name, read_seconds))
             /\ audit_log' = _log_action(u, "acknowledged", "sop", sop_id, "signature")
             /\ response' = Response("acknowledge", <<u, sop_id, read_seconds>>, 303, "/sop/{sop_id}")
    /\ UNCHANGED <<threads, users, staff, docVars, learnVars, now>>

-----------------------------------------------------------------------------
(* admin_staff_toggle                                                      *)

\* UPDATE staff SET active = CASE WHEN active = 1 THEN 0 ELSE 1 END WHERE id = ?
toggle_active_off(table, staff_id) ==
    [i \in DOMAIN table |->
        IF i = staff_id THEN [table[i] EXCEPT !.active = 0] ELSE table[i]]

toggle_active(table, staff_id) ==
    [i \in DOMAIN table |->
        IF i = staff_id
        THEN [table[i] EXCEPT !.active = IF @ = 1 THEN 0 ELSE 1]
        ELSE table[i]]

admin_staff_toggle(u, staff_id) ==
    /\ u \in Admins
    /\ staff' = toggle_active(staff, staff_id)
    /\ audit_log' = _log_action(u, "toggle", "staff", staff_id, "active")
    /\ response' = Response("admin_staff_toggle", <<u, staff_id>>, 303, "/admin/staff")
    /\ UNCHANGED <<threads, users, docVars, acknowledgments, learnVars, now>>

-----------------------------------------------------------------------------
(* The clock                                                               *)

Tick(seconds) ==
    /\ now' = now + seconds
    /\ UNCHANGED <<threads, users, staff, docVars, acknowledgments, learnVars, audit_log, response>>

-----------------------------------------------------------------------------
(* init_db: the legacy migration that re-derives acknowledgments.staff_id  *)
(* from acknowledgments.staff_name (run by on_startup and by import_sops)  *)

\* SELECT id FROM staff WHERE normalized_name = ? (UNIQUE column)
StaffByNormalizedName(table, normalized) ==
    {i \in DOMAIN table : table[i].normalized_name = normalized}

\* INSERT OR IGNORE INTO staff (name, normalized_name), for every distinct
\* non-empty staff_name of the acknowledgments
RECURSIVE init_db_staff(_, _)
init_db_staff(table, names) ==
    IF names = {} THEN table
    ELSE LET name == CHOOSE n \in names : TRUE
             added == IF StaffByNormalizedName(table, lower(name)) = {}
                      THEN table @@ ((Max(DOMAIN table \cup {0}) + 1) :>
                              [name |-> name, normalized_name |-> lower(name), active |-> 1])
                      ELSE table
         IN init_db_staff(added, names \ {name})

\* UPDATE acknowledgments SET staff_id = ? WHERE staff_name = ?
init_db_acks(acks, table) ==
    [i \in DOMAIN acks |->
        IF acks[i].staff_name = ""
        THEN acks[i]
        ELSE [acks[i] EXCEPT !.staff_id =
                CHOOSE id \in StaffByNormalizedName(table, lower(acks[i].staff_name)) : TRUE]]

-----------------------------------------------------------------------------
(* scripts/import_sops.py                                                  *)

\* clean_title on the titles and file names of the model
clean_title(filename) ==
    CASE filename = "Intake.docx" -> "Intake"
      [] filename = "Intake_SOP.docx" -> "Intake"
      [] filename = "Intake_SOP" -> "Intake"
      [] filename = "Fire.docx" -> "Fire"
      [] OTHER -> filename

\* CATEGORY_MAP.get(doc_path.parent.name)
CATEGORY_MAP(folder) ==
    CASE folder = "Client Care (CC)" -> "Client Care"
      [] folder = "Operations (OP)" -> "Operations"
      [] OTHER -> "Operations"

\* The policy files the source folder can hold, in sorted path order; a
\* directory listing gives each present file its current text.
SourceFiles == <<[folder |-> "Client Care (CC)", name |-> "Intake.docx"],
                 [folder |-> "Operations (OP)", name |-> "Intake_SOP.docx"]>>

\* the loop over sorted(SOURCE_DIR.rglob("*.docx")): update-by-title or insert
RECURSIVE import_loop(_, _, _, _)
import_loop(table, seq, listing, i) ==
    IF i > Len(SourceFiles) THEN [table |-> table, seq |-> seq]
    ELSE IF listing[i] = "" THEN import_loop(table, seq, listing, i + 1)
    ELSE LET title == clean_title(SourceFiles[i].name)
             category == CATEGORY_MAP(SourceFiles[i].folder)
             content == listing[i]
             existing == {id \in DOMAIN table : table[id].title = title}
         IN IF existing # {}
            THEN import_loop(
                    [id \in DOMAIN table |->
                        IF id \in existing
                        THEN [table[id] EXCEPT !.category = category, !.content = content]
                        ELSE table[id]],
                    seq, listing, i + 1)
            ELSE import_loop(
                    table @@ ((seq + 1) :> SopRow(title, category, content, DefaultCurrentVersion)),
                    seq + 1, listing, i + 1)

\* Normalize stored titles to cleaned versions
normalize_titles(table) ==
    [id \in DOMAIN table |-> [table[id] EXCEPT !.title = clean_title(@)]]

\* Deduplicate by cleaned title: the lowest id of each group is kept
keep_id(table, id) ==
    Min({j \in DOMAIN table : clean_title(table[j].title) = clean_title(table[id].title)})

dedup_sops(table) ==
    LET kept == {id \in DOMAIN table : keep_id(table, id) = id}
    IN [id \in kept |-> table[id]]

\* UPDATE acknowledgments SET sop_id = keep_id WHERE sop_id IN (drop_ids)
dedup_acks(acks, table) ==
    [i \in DOMAIN acks |->
        IF acks[i].sop_id \in DOMAIN table
        THEN [acks[i] EXCEPT !.sop_id = keep_id(table, @)]
        ELSE acks[i]]

import_sops(listing) ==
    LET staff1 == init_db_staff(staff,
                    {acknowledgments[i].staff_name : i \in DOMAIN acknowledgments} \ {""})
        acks1 == init_db_acks(acknowledgments, staff1)
        loaded == import_loop(sops, sops_seq, listing, 1)
        normalized == normalize_titles(loaded.table)
    IN  /\ staff' = staff1
        /\ sops' = dedup_sops(normalized)
        /\ sops_seq' = loaded.seq
        /\ acknowledgments' = dedup_acks(acks1, normalized)
        /\ response' = Returned("import_sops", listing, <<>>)
        /\ UNCHANGED <<threads, users, sop_versions, learnVars, audit_log, now>>

-----------------------------------------------------------------------------
(* ComplianceAggregator: compliance_dashboard (read side)                  *)
(* An optional date argument is <<>> when absent and <<day>> when given.   *)

\* SELECT id, name FROM staff WHERE active = 1
ActiveStaffOrNot == DOMAIN staff

ActiveStaff == {i \in DOMAIN staff : staff[i].active = 1}

\* cutoff = date.today() - timedelta(days=REACK_DAYS); a later start_date
\* replaces it
effective_start_short(start_date) ==
    LET cutoff == Today - REACK_DAYS + 1
    IN IF start_date # <<>> /\ start_date[1] > cutoff THEN start_date[1] ELSE cutoff

\* datetime.strptime(start_date, "%Y-%m-%d").date(): the text of a date
\* argument is <<d>> for the ISO text of day d and <<d, x>> for that text
\* followed by more characters, which raises ValueError (<<>>)
strptime(text) == IF Len(text) = 1 THEN <<text[1]>> ELSE <<>>

\* a given start_date replaces the cutoff, later or not
effective_start_as_given(start_date) ==
    LET cutoff == Today - REACK_DAYS
        start == IF start_date # <<>> THEN strptime(start_date) ELSE <<>>
    IN IF start # <<>> THEN start[1] ELSE cutoff

\* if start_date: try: start = strptime(...); if start > effective_start: ...
\* except ValueError: pass
effective_start(start_date) ==
    LET cutoff == Today - REACK_DAYS
        start == IF start_date # <<>> THEN strptime(start_date) ELSE <<>>
    IN IF start # <<>> /\ start[1] > cutoff THEN start[1] ELSE cutoff

\* date_clause
date_clause_open_end(a, start_date, end_date) ==
    DateOf(a.acknowledged_at) >= effective_start(start_date)

date_clause(a, start_date, end_date) ==
    /\ DateOf(a.acknowledged_at) >= effective_start(start_date)
    /\ end_date # <<>> => DateOf(a.acknowledged_at) <= end_date[1]

\* the (document, staff) pairs with an in-window acknowledgment, of any staff
latest_pairs_any_staff(start_date, end_date) ==
    {<<acknowledgments[i].sop_id, acknowledgments[i].staff_id>> :
        i \in {j \in DOMAIN acknowledgments :
                date_clause(acknowledgments[j], start_date, end_date)}}

\* the inner SELECT of ack_by_sop: one row per (sop_id, staff_id) having an
\* in-window acknowledgment by an active staff member
latest_pairs(start_date, end_date) ==
    {<<acknowledgments[i].sop_id, acknowledgments[i].staff_id>> :
        i \in {j \in DOMAIN acknowledgments :
                /\ acknowledgments[j].staff_id \in ActiveStaff
                /\ date_clause(acknowledgments[j], start_date, end_date)}}

\* ack_by_sop.get(sop_id, 0)
ack_by_sop(sop_id, start_date, end_date) ==
    Cardinality({p \in latest_pairs(start_date, end_date) : p[1] = sop_id})

\* ack_by_category.get(category, 0): the pairs of latest_pairs joined to the
\* sops row of their document
ack_by_category(category, start_date, end_date) ==
    Cardinality({p \in latest_pairs(start_date, end_date) :
                    p[1] \in SopIds /\ sops[p[1]].category = category})

\* staff_completion: the documents counted for one person
staff_acked(person, start_date, end_date) ==
    {acknowledgments[i].sop_id :
        i \in {j \in DOMAIN acknowledgments :
                /\ acknowledgments[j].staff_id = person
                /\ date_clause(acknowledgments[j], start_date, end_date)}}

\* overdue: the active staff with no in-window acknowledgment of the document
missing_staff_any_date(sop_id, start_date, end_date) ==
    {s \in ActiveStaff :
        s \notin {acknowledgments[i].staff_id :
                    i \in {j \in DOMAIN acknowledgments : acknowledgments[j].sop_id = sop_id}}}

missing_staff(sop_id, start_date, end_date) ==
    {s \in ActiveStaff :
        s \notin {acknowledgments[i].staff_id :
                    i \in {j \in DOMAIN acknowledgments :
                            /\ acknowledgments[j].sop_id = sop_id
                            /\ date_clause(acknowledgments[j], start_date, end_date)}}}

overdue(start_date, end_date) ==
    IF ActiveStaff # {} /\ SopIds # {}
    THEN {sop_id \in SopIds : missing_staff(sop_id, start_date, end_date) # {}}
    ELSE {}

staff_count == Cardinality(ActiveStaff)

sop_count == Cardinality(SopIds)

\* (n / total * 100) if total else 0, as the fraction <<numerator, denominator>>
percent_unguarded(n, total) == <<n * 100, total>>

percent(n, total) == IF total # 0 THEN <<n * 100, total>> ELSE <<0, 1>>

\* staff_completion: one row per active member
staff_completion(start_date, end_date) ==
    [person \in ActiveStaff |->
        LET acked == Cardinality(staff_acked(person, start_date, end_date)) IN
        [acked |-> acked, total |-> sop_count, percent |-> percent(acked, sop_count)]]

total_required == staff_count * sop_count

\* every in-window acknowledgment row of active staff, a pair counted once
\* per row
total_ack_rows(start_date, end_date) ==
    Cardinality({j \in DOMAIN acknowledgments :
                    /\ acknowledgments[j].staff_id \in ActiveStaff
                    /\ date_clause(acknowledgments[j], start_date, end_date)})

\* sum(ack_by_sop.values())
total_ack_pairs(start_date, end_date) == Cardinality(latest_pairs(start_date, end_date))

overall_percent(start_date, end_date) ==
    percent(total_ack_pairs(start_date, end_date), total_required)

-----------------------------------------------------------------------------
(* app/learning.py: seed_modules, module_status, is_locked_out             *)

ModuleRow(sop_id, passing_score, recert_days) ==
    [sop_id |-> sop_id, passing_score |-> passing_score,
     recert_days |-> recert_days, active |-> 1]

\* seed_modules: one module for every document that has none, in id order
RECURSIVE seed_loop(_, _)
seed_loop(modules, ids) ==
    IF ids = {} THEN modules
    ELSE LET sop_id == Min(ids)
             exists == \E m \in DOMAIN modules : modules[m].sop_id = sop_id
         IN seed_loop(IF exists THEN modules
                      ELSE Append(modules, ModuleRow(sop_id, 80, 365)),
                      ids \ {sop_id})

seed_modules_unchecked == training_modules \o seed_loop(<<>>, SopIds)

seed_modules == seed_loop(training_modules, SopIds)

\* the training_attempts rows of a (module, staff) pair
AttemptsOf(module_id, staff_id) ==
    {i \in DOMAIN training_attempts :
        /\ training_attempts[i].module_id = module_id
        /\ training_attempts[i].staff_id = staff_id}

\* ORDER BY attempted_at DESC LIMIT 1 over a set of rows: a row with the
\* greatest attempted_at; which one, among rows of the same second, SQL leaves
\* open
FirstByAttemptedAtDesc(rows) ==
    {i \in rows : \A j \in rows :
        training_attempts[j].attempted_at <= training_attempts[i].attempted_at}

\* last_pass["attempted_at"] if last_pass else None   (<<>> = None)
LastPassAt(module_id, staff_id) ==
    LET passes == {i \in AttemptsOf(module_id, staff_id) : training_attempts[i].passed = 1}
    IN IF passes = {} THEN <<>>
       ELSE <<training_attempts[CHOOSE i \in FirstByAttemptedAtDesc(passes) : TRUE].attempted_at>>

\* the comparison that decides "passed" in module_status
StatusOfStrict(last, recert_days) ==
    LET due_date == DateOf(last.attempted_at) + recert_days
    IN IF last.passed = 1 /\ Today < due_date THEN "passed" ELSE "due"

StatusOfIgnoringLast(last, recert_days) ==
    LET due_date == DateOf(last.attempted_at) + recert_days
    IN IF Today <= due_date THEN "passed" ELSE "due"

StatusOfFromDueDate(last, recert_days) ==
    LET due_date == DateOf(last.attempted_at) + recert_days
    IN IF last.passed = 1 /\ Today >= due_date THEN "passed" ELSE "due"

StatusOf(last, recert_days) ==
    LET last_date == DateOf(last.attempted_at)
        due_date == last_date + recert_days
    IN IF last.passed = 1 /\ Today <= due_date THEN "passed" ELSE "due"

\* module_status: the tuples (status, last attempted_at, last score, last pass
\* attempted_at) the call can return
module_status_unpassed(module_id, staff_id) ==
    IF module_id \notin DOMAIN training_modules \/ LastPassAt(module_id, staff_id) = <<>>
    THEN {<<"not_started", <<>>, <<>>, <<>>>>}
    ELSE {<<StatusOf(training_attempts[last], training_modules[module_id].recert_days),
            <<training_attempts[last].attempted_at>>,
            <<training_attempts[last].score>>,
            LastPassAt(module_id, staff_id)>> :
                last \in FirstByAttemptedAtDesc(AttemptsOf(module_id, staff_id))}

module_status(module_id, staff_id) ==
    IF module_id \notin DOMAIN training_modules \/ AttemptsOf(module_id, staff_id) = {}
    THEN {<<"not_started", <<>>, <<>>, <<>>>>}
    ELSE {<<StatusOf(training_attempts[last], training_modules[module_id].recert_days),
            <<training_attempts[last].attempted_at>>,
            <<training_attempts[last].score>>,
            LastPassAt(module_id, staff_id)>> :
                last \in FirstByAttemptedAtDesc(AttemptsOf(module_id, staff_id))}

\* is_locked_out: (locked, failures) over the attempts of the pair with
\* attempted_at >= utcnow() - lockout_hours
is_locked_out_no_reset(module_id, staff_id, max_attempts, lockout_hours) ==
    LET window_start == now - lockout_hours * SecondsPerHour
        attempts == {i \in AttemptsOf(module_id, staff_id) :
                        training_attempts[i].attempted_at >= window_start}
        failures == Cardinality({i \in attempts : training_attempts[i].passed = 0})
    IN <<failures >= max_attempts, failures>>

is_locked_out_off_by_one(module_id, staff_id, max_attempts, lockout_hours) ==
    LET window_start == now - lockout_hours * SecondsPerHour
        attempts == {i \in AttemptsOf(module_id, staff_id) :
                        training_attempts[i].attempted_at >= window_start}
        failures == Cardinality({i \in attempts : training_attempts[i].passed = 0})
    IN IF \E i \in attempts : training_attempts[i].passed = 1
       THEN <<FALSE, 0>>
       ELSE <<failures > max_attempts, failures>>

is_locked_out_unwindowed(module_id, staff_id, max_attempts, lockout_hours) ==
    LET attempts == AttemptsOf(module_id, staff_id)
        failures == Cardinality({i \in attempts : training_attempts[i].passed = 0})
    IN IF \E i \in attempts : training_attempts[i].passed = 1
       THEN <<FALSE, 0>>
       ELSE <<failures >= max_attempts, failures>>

is_locked_out_since_pass(module_id, staff_id, max_attempts, lockout_hours) ==
    LET window_start == now - lockout_hours * SecondsPerHour
        attempts == {i \in AttemptsOf(module_id, staff_id) :
                        training_attempts[i].attempted_at >= window_start}
        passes == {i \in attempts : training_attempts[i].passed = 1}
        failures == Cardinality({i \in attempts :
                        /\ training_attempts[i].passed = 0
                        /\ \A j \in passes : j < i})
    IN <<failures >= max_attempts, failures>>

is_locked_out(module_id, staff_id, max_attempts, lockout_hours) ==
    LET window_start == now - lockout_hours * SecondsPerHour
        attempts == {i \in AttemptsOf(module_id, staff_id) :
                        training_attempts[i].attempted_at >= window_start}
        failures == Cardinality({i \in attempts : training_attempts[i].passed = 0})
    IN IF attempts = {} THEN <<FALSE, 0>>
       ELSE IF \E i \in attempts : training_attempts[i].passed = 1
       THEN <<FALSE, 0>>
       ELSE <<failures >= max_attempts, failures>>

-----------------------------------------------------------------------------
(* Learning handlers of app/main.py                                        *)

\* str.upper on the answer letters of the model
upper(letter) == CASE letter = "a" -> "A"
                   [] letter = "b" -> "B"
                   [] OTHER -> letter

TrainingLeads == {u \in DOMAIN users : users[u].role \in {"admin", "training_lead"}}

learning_admin_seed(u) ==
    /\ u \in TrainingLeads
    /\ training_modules' = seed_modules
    /\ audit_log' = _log_action(u, "seed", "training", NULL,
                        Len(seed_modules) - Len(training_modules))
    /\ response' = Response("learning_admin_seed", <<u>>, 303, "/learning/admin")
    /\ UNCHANGED <<threads, users, staff, docVars, acknowledgments, training_questions,
                   training_attempts, now>>

\* UPDATE training_modules ...; then update or insert the module's question
learning_admin_update(u, module_id, passing_score, recert_days, correct_option) ==
    /\ u \in TrainingLeads
    /\ training_modules' =
            [m \in DOMAIN training_modules |->
                IF m = module_id
                THEN [training_modules[m] EXCEPT !.passing_score = passing_score,
                                                 !.recert_days = recert_days]
                ELSE training_modules[m]]
    /\ training_questions' =
            IF module_id \in DOMAIN training_questions
            THEN [training_questions EXCEPT ![module_id] = upper(correct_option)]
            ELSE training_questions @@ (module_id :> upper(correct_option))
    /\ audit_log' = _log_action(u, "update", "training_module", module_id, "question_updated")
    /\ response' = Response("learning_admin_update", <<u, module_id>>, 303, "/learning/admin")
    /\ UNCHANGED <<threads, users, staff, docVars, acknowledgments, training_attempts, now>>

AttemptRow(module_id, staff_id, score, passed) ==
    [module_id |-> module_id, staff_id |-> staff_id, score |-> score,
     passed |-> passed, attempted_at |-> now]

\* is_correct = answer.upper() == correct_option.upper(); score = 100 or 0
Score(answer, correct_option) == IF upper(answer) = upper(correct_option) THEN 100 ELSE 0

\* passed = 1 if score >= module["passing_score"] else 0
PassedAtDefault(score, passing_score) == IF score >= 80 THEN 1 ELSE 0

Passed(score, passing_score) == IF score >= passing_score THEN 1 ELSE 0

locked_at_submit_skipped(module_id, staff_id) == FALSE

\* locked, _ = is_locked_out(module_id, user.staff_id, QUIZ_MAX_ATTEMPTS, QUIZ_LOCKOUT_HOURS)
locked_at_submit(module_id, staff_id) ==
    is_locked_out(module_id, staff_id, QUIZ_MAX_ATTEMPTS, QUIZ_LOCKOUT_HOURS)[1]

learning_module_submit(u, module_id, answer) ==
    /\ u \in DOMAIN users
    /\ LET user == users[u]
           request == <<u, module_id, answer>> IN
        IF user.staff_id = NULL
        THEN /\ response' = Response("learning_module_submit", request, 303, "/learning")
             /\ UNCHANGED <<training_attempts, audit_log>>
        ELSE IF module_id \notin DOMAIN training_modules
                \/ module_id \notin DOMAIN training_questions
        THEN /\ response' = Response("learning_module_submit", request, 303, "/learning")
             /\ UNCHANGED <<training_attempts, audit_log>>
        ELSE IF locked_at_submit(module_id, user.staff_id)
        THEN /\ response' = Response("learning_module_submit", request, 303,
                                     "/learning/module/{module_id}")
             /\ UNCHANGED <<training_attempts, audit_log>>
        ELSE LET score == Score(answer, training_questions[module_id])
                 passed == Passed(score, training_modules[module_id].passing_score) IN
             /\ training_attempts' = Append(training_attempts,
                    AttemptRow(module_id, user.staff_id, score, passed))
             /\ audit_log' = _log_action(u, "training_attempt", "module", module_id, score)
             /\ response' = Response("learning_module_submit", request, 303, "/learning")
    /\ UNCHANGED <<threads, users, staff, docVars, acknowledgments, training_modules,
                   training_questions, now>>

-----------------------------------------------------------------------------
(* Inputs of the requests                                                  *)

MaxSops == 2         \* documents ever inserted

\* the model stops taking audited (state-changing) requests at MaxAudit rows
CanAudit == Len(audit_log) < MaxAudit

Titles == {"Intake", "Intake_SOP"}
Categories == {"Operations"}
Contents == {"c1", "c2"}

\* a directory listing: the text of each source file, "" when absent/empty
Listings == [1..Len(SourceFiles) -> {"", "c2"}]

StaffUsers == {u \in DOMAIN users : users[u].staff_id # NULL}

-----------------------------------------------------------------------------
(* The document store in use: create, edit, import                         *)

CreateDocument ==
    \E u \in Admins, t \in Titles, c \in Categories, x \in {"c1"} :
        CanAudit /\ sops_seq < MaxSops /\ admin_create(u, t, c, x)

EditDocument ==
    \E u \in Admins, id \in SopIds, t \in Titles, c \in Categories, x \in Contents :
        CanAudit /\ admin_update(u, id, t, c, x)

ImportDocuments ==
    \E listing \in Listings :
        /\ import_loop(sops, sops_seq, listing, 1).seq <= MaxSops
        /\ import_sops(listing)

NextVersions == CreateDocument \/ EditDocument \/ ImportDocuments

SpecVersions == Init /\ [][NextVersions]_vars

-----------------------------------------------------------------------------
(* The ledger in use: documents are created and edited, staff acknowledge, *)
(* staff are (de)activated, days pass                                      *)

MaxDays == 2         \* the clock stops advancing after this many days

CreateOne ==
    \E u \in Admins :
        CanAudit /\ sops_seq < MaxSops /\ admin_create(u, "Intake", "Operations", "c1")

EditOne ==
    \E u \in Admins, id \in SopIds :
        CanAudit /\ admin_update(u, id, "Intake", "Operations", "c2")

\* read_seconds of the form: well below, just below and at the minimum
ReadTimes == {5, MIN_READ_SECONDS - 1, MIN_READ_SECONDS}

Acknowledge ==
    \E u \in StaffUsers, id \in SopIds, read_seconds \in ReadTimes :
        CanAudit /\ acknowledge(u, id, read_seconds)

ToggleStaff ==
    \E u \in Admins, s \in DOMAIN staff : CanAudit /\ admin_staff_toggle(u, s)

\* a day passes (MaxDays times at most before and after the window)
TickDay ==
    /\ (now % (REACK_DAYS * SecondsPerDay)) + SecondsPerDay <= MaxDays * SecondsPerDay
    /\ Tick(SecondsPerDay)

\* the re-acknowledgment window passes, once
TickWindow == now < REACK_DAYS * SecondsPerDay /\ Tick(REACK_DAYS * SecondsPerDay)

NextAcks == CreateOne \/ EditOne \/ Acknowledge \/ ToggleStaff \/ TickDay \/ TickWindow

SpecAcks == Init /\ [][NextAcks]_vars

-----------------------------------------------------------------------------
(* Reading the history of a document off the tables                        *)

\* the audit rows of one action on one document
AuditRows(action, sop_id) ==
    {i \in DOMAIN audit_log :
        /\ audit_log[i].action = action
        /\ audit_log[i].entity_type = "sop"
        /\ audit_log[i].entity_id = sop_id}

CreatedByAdmin(sop_id) == AuditRows("create", sop_id) # {}

EditCount(sop_id) == Cardinality(AuditRows("update", sop_id))

\* versionHistory: the sop_versions rows of a document
VersionRows(sop_id) == {i \in DOMAIN sop_versions : sop_versions[i].sop_id = sop_id}

VersionNumbers(sop_id) == {sop_versions[i].version : i \in VersionRows(sop_id)}

\* latestAcknowledgment: greatest timestamp, ties broken by the higher id
AcksOf(sop_id, staff_id) ==
    {i \in DOMAIN acknowledgments :
        /\ acknowledgments[i].sop_id = sop_id
        /\ acknowledgments[i].staff_id = staff_id}

LatestAck(sop_id, staff_id) ==
    CHOOSE i \in AcksOf(sop_id, staff_id) :
        \A j \in AcksOf(sop_id, staff_id) :
            \/ acknowledgments[j].acknowledged_at < acknowledgments[i].acknowledged_at
            \/ /\ acknowledgments[j].acknowledged_at = acknowledgments[i].acknowledged_at
               /\ j <= i

\* treated as compliant by compliance_dashboard with no date arguments
CountedCompliant(sop_id, staff_id) ==
    \/ <<sop_id, staff_id>> \in latest_pairs(<<>>, <<>>)
    \/ sop_id \in staff_acked(staff_id, <<>>, <<>>)
    \/ (sop_id \in SopIds /\ staff_id \notin missing_staff(sop_id, <<>>, <<>>))

-----------------------------------------------------------------------------
(* Claims                                                                  *)

\* C1: an active staff member is treated as compliant for a document (counted
\* in the per-document numerator, in the per-staff completion, or left off the
\* overdue list) only if their latest acknowledgment of that document carries
\* the document's current_version.
C1_CurrencyCorrectness ==
    \A sop_id \in SopIds, s \in ActiveStaff :
        CountedCompliant(sop_id, s) =>
            /\ AcksOf(sop_id, s) # {}
            /\ acknowledgments[LatestAck(sop_id, s)].sop_version = sops[sop_id].current_version

\* C2: a row appended to acknowledgments carries the current_version the
\* document has in the store at that call, which for a document made by
\* admin_create and edited k times is k + 1.
C2_AckPinsCurrentVersion ==
    [][Len(acknowledgments') = Len(acknowledgments) + 1 =>
        LET row == acknowledgments'[Len(acknowledgments')] IN
            /\ row.sop_id \in SopIds
            /\ row.sop_version = sops[row.sop_id].current_version
            /\ CreatedByAdmin(row.sop_id) => row.sop_version = EditCount(row.sop_id) + 1]_vars

\* C2 witness: an acknowledgment recorded after an edit, at version 2 or later
C2_Witness ==
    \E i \in DOMAIN acknowledgments :
        /\ acknowledgments[i].sop_version >= 2
        /\ acknowledgments[i].sop_id \in SopIds
        /\ acknowledgments[i].sop_version = sops[acknowledgments[i].sop_id].current_version

\* C3: a document made by admin_create and edited N times has
\* current_version = N + 1 and exactly N + 1 snapshots, numbered 1..N+1.
C3_VersionMonotonicity ==
    \A sop_id \in SopIds :
        CreatedByAdmin(sop_id) =>
            LET N == EditCount(sop_id) IN
                /\ sops[sop_id].current_version = N + 1
                /\ Cardinality(VersionRows(sop_id)) = N + 1
                /\ VersionNumbers(sop_id) = 1..(N + 1)

\* C3 witness: an admin-created document edited at least twice
C3_Witness ==
    \E sop_id \in SopIds :
        /\ CreatedByAdmin(sop_id)
        /\ EditCount(sop_id) >= 2
        /\ sops[sop_id].current_version = EditCount(sop_id) + 1

\* C4: for every document, however created, the version numbers of its
\* snapshots are exactly 1..current_version, each once.
C4_ContiguousVersions ==
    \A sop_id \in SopIds :
        /\ VersionNumbers(sop_id) = 1..sops[sop_id].current_version
        /\ Cardinality(VersionRows(sop_id)) = sops[sop_id].current_version

\* C5: every step that changes the title, category or content of a document
\* raises its current_version by exactly one and appends a snapshot of the
\* new fields at the new number.
C5_EditIsOnlyMutationPath ==
    [][\A sop_id \in SopIds \cap DOMAIN sops' :
        (\/ sops'[sop_id].title # sops[sop_id].title
         \/ sops'[sop_id].category # sops[sop_id].category
         \/ sops'[sop_id].content # sops[sop_id].content) =>
            /\ sops'[sop_id].current_version = sops[sop_id].current_version + 1
            /\ Len(sop_versions') = Len(sop_versions) + 1
            /\ LET snap == sop_versions'[Len(sop_versions')] IN
                /\ snap.sop_id = sop_id
                /\ snap.version = sops'[sop_id].current_version
                /\ snap.title = sops'[sop_id].title
                /\ snap.category = sops'[sop_id].category
                /\ snap.content = sops'[sop_id].content]_vars

-----------------------------------------------------------------------------
(* Any attempt history at any time: the status and lockout functions are   *)
(* applied to the histories of one module (recert_days 1 or 30) whose      *)
(* attempts fall on a 12-hour grid, at a present on the grid or thirty     *)
(* days after it.                                                          *)

MaxHistory == 3      \* attempts in a history

HalfDay == 12 * SecondsPerHour

\* attempt times: 0h, 12h, 24h and 36h
Grid == {0, HalfDay, SecondsPerDay, SecondsPerDay + HalfDay}

\* the present: a grid point, or thirty days after one
Times == Grid \cup {t + 30 * SecondsPerDay : t \in Grid}

RecertChoices == {1, 30}

\* the rows learning_module_submit writes for a module with passing_score 80
HistoryRows ==
    {[module_id |-> 1, staff_id |-> s, score |-> 100 * p, passed |-> p, attempted_at |-> t] :
        s \in DOMAIN InitStaff, p \in {0, 1}, t \in Grid}

\* rows are inserted in the order of their timestamps
Histories ==
    {h \in UNION {[1..n -> HistoryRows] : n \in 0..MaxHistory} :
        \A i \in 1..(Len(h) - 1) : h[i].attempted_at <= h[i + 1].attempted_at}

\* the audit rows of the set-up and of the attempts of a history
HistoryAudit(h) ==
    <<[actor_user_id |-> 1, action |-> "create", entity_type |-> "sop",
       entity_id |-> 1, details |-> "Intake"],
      [actor_user_id |-> 1, action |-> "seed", entity_type |-> "training",
       entity_id |-> NULL, details |-> 1],
      [actor_user_id |-> 1, action |-> "update", entity_type |-> "training_module",
       entity_id |-> 1, details |-> "question_updated"]>>
    \o [i \in 1..Len(h) |->
        [actor_user_id |-> h[i].staff_id + 1, action |-> "training_attempt",
         entity_type |-> "module", entity_id |-> 1, details |-> h[i].score]]

InitHistory ==
    /\ users = InitUsers
    /\ staff = InitStaff
    /\ sops = (1 :> SopRow("Intake", "Operations", "c1", 1))
    /\ sops_seq = 1
    /\ sop_versions = <<VersionRow(1, 1, "Intake", "Operations", "c1", 1)>>
    /\ acknowledgments = <<>>
    /\ \E r \in RecertChoices : training_modules = <<ModuleRow(1, 80, r)>>
    /\ training_questions = (1 :> "A")
    /\ training_attempts \in Histories
    /\ audit_log = HistoryAudit(training_attempts)
    /\ now \in {t \in Times : \A i \in DOMAIN training_attempts :
                                training_attempts[i].attempted_at <= t}
    /\ response = [handler |-> "none", request |-> <<>>, result |-> <<>>]
    /\ threads = NoRequests

CallModuleStatus ==
    \E m \in DOMAIN training_modules, s \in DOMAIN staff :
        \E r \in module_status(m, s) :
            /\ response' = Returned("module_status", <<m, s, now>>, r)
            /\ UNCHANGED <<threads, users, staff, docVars, acknowledgments, learnVars, audit_log, now>>

CallIsLockedOut ==
    \E m \in DOMAIN training_modules, s \in DOMAIN staff :
        /\ response' = Returned("is_locked_out", <<m, s, now>>,
                is_locked_out(m, s, QUIZ_MAX_ATTEMPTS, QUIZ_LOCKOUT_HOURS))
        /\ UNCHANGED <<threads, users, staff, docVars, acknowledgments, learnVars, audit_log, now>>

NextHistory == CallModuleStatus \/ CallIsLockedOut

SpecHistory == InitHistory /\ [][NextHistory]_vars

-----------------------------------------------------------------------------
(* Claims about the status and lockout functions                           *)

Pairs == (DOMAIN training_modules) \X (DOMAIN staff)

PassesOf(module_id, staff_id) ==
    {i \in AttemptsOf(module_id, staff_id) : training_attempts[i].passed = 1}

\* the date of the most recent passing attempt of a pair that has one
MostRecentPassDate(module_id, staff_id) ==
    Max({DateOf(training_attempts[i].attempted_at) : i \in PassesOf(module_id, staff_id)})

\* every attempt of the pair with the greatest attempted_at failed
MostRecentFailed(module_id, staff_id) ==
    /\ AttemptsOf(module_id, staff_id) # {}
    /\ \A i \in FirstByAttemptedAtDesc(AttemptsOf(module_id, staff_id)) :
            training_attempts[i].passed = 0

Returns(module_id, staff_id, status) ==
    \A r \in module_status(module_id, staff_id) : r[1] = status

\* the last call was module_status on this pair at the present time and
\* returned this status
Answered(module_id, staff_id, status) ==
    /\ response.handler = "module_status"
    /\ response.request = <<module_id, staff_id, now>>
    /\ response.result[1] = status

\* C6: module_status returns passed whenever the pair has a passing attempt
\* and today <= date of the most recent pass + recert_days, a later failed
\* attempt included.
C6_PassCarriesForward ==
    \A p \in Pairs :
        (/\ PassesOf(p[1], p[2]) # {}
         /\ Today <= MostRecentPassDate(p[1], p[2]) + training_modules[p[1]].recert_days)
            => Returns(p[1], p[2], "passed")

\* C7: if the most recent attempt of a pair failed, module_status returns due,
\* also when an earlier pass has not expired.
C7_LastFailedIsDue ==
    \A p \in Pairs : MostRecentFailed(p[1], p[2]) => Returns(p[1], p[2], "due")

\* C7 witness: due was returned for a pair whose unexpired pass is followed
\* by a failed attempt
C7_Witness ==
    \E p \in Pairs :
        /\ MostRecentFailed(p[1], p[2])
        /\ PassesOf(p[1], p[2]) # {}
        /\ Today <= MostRecentPassDate(p[1], p[2]) + training_modules[p[1]].recert_days
        /\ Answered(p[1], p[2], "due")

\* C8: with a single attempt, a pass on day 0, module_status returns passed
\* on every day d <= recert_days after it and due on every later day.
C8_RecertExpiry ==
    \A p \in Pairs :
        (/\ Cardinality(AttemptsOf(p[1], p[2])) = 1
         /\ PassesOf(p[1], p[2]) # {})
            => LET d == Today - MostRecentPassDate(p[1], p[2])
                   R == training_modules[p[1]].recert_days
               IN /\ d <= R => Returns(p[1], p[2], "passed")
                  /\ d > R => Returns(p[1], p[2], "due")

\* C8 witness: recert_days = 30, one pass and nothing else, due returned on
\* day 31
C8_Witness ==
    \E p \in Pairs :
        /\ Cardinality(AttemptsOf(p[1], p[2])) = 1
        /\ PassesOf(p[1], p[2]) # {}
        /\ training_modules[p[1]].recert_days = 30
        /\ Today - MostRecentPassDate(p[1], p[2]) = 31
        /\ Answered(p[1], p[2], "due")

\* the attempts of a pair inside the trailing window [now - hours, now]
InWindow(module_id, staff_id, lockout_hours) ==
    {i \in AttemptsOf(module_id, staff_id) :
        /\ now - lockout_hours * SecondsPerHour <= training_attempts[i].attempted_at
        /\ training_attempts[i].attempted_at <= now}

FailureCount(module_id, staff_id, lockout_hours) ==
    Cardinality({i \in InWindow(module_id, staff_id, lockout_hours) :
                    training_attempts[i].passed # 1})

PassInWindow(module_id, staff_id, lockout_hours) ==
    \E i \in InWindow(module_id, staff_id, lockout_hours) : training_attempts[i].passed = 1

\* C9: is_locked_out returns (false, 0) if an attempt of the pair inside the
\* trailing window passed, and otherwise (failureCount >= max_attempts,
\* failureCount) for the failed attempts of the pair inside the window.
C9_LockoutAlgorithm ==
    \A p \in Pairs, lockout_hours \in {12, QUIZ_LOCKOUT_HOURS} :
        LET failureCount == FailureCount(p[1], p[2], lockout_hours)
            anyPassed == PassInWindow(p[1], p[2], lockout_hours)
        IN \A max_attempts \in 1..MaxHistory :
            is_locked_out(p[1], p[2], max_attempts, lockout_hours) =
                IF anyPassed THEN <<FALSE, 0>>
                ELSE <<failureCount >= max_attempts, failureCount>>

\* C9 witness: is_locked_out returned locked for a pair with QUIZ_MAX_ATTEMPTS
\* failures and no pass in the window, some of them made before the present
C9_Witness ==
    \E p \in Pairs :
        /\ response.handler = "is_locked_out"
        /\ response.request = <<p[1], p[2], now>>
        /\ response.result = <<TRUE, QUIZ_MAX_ATTEMPTS>>
        /\ ~PassInWindow(p[1], p[2], QUIZ_LOCKOUT_HOURS)
        /\ \E i \in InWindow(p[1], p[2], QUIZ_LOCKOUT_HOURS) :
                training_attempts[i].attempted_at < now

-----------------------------------------------------------------------------
(* Quiz submissions: one document with its seeded module and question; a   *)
(* linked user and the unlinked administrator submit answers while the     *)
(* clock advances in 12-hour steps.                                        *)

MaxSubmitted == 5    \* attempts ever recorded

Submitters == {1, 2}

Answers == {"a", "B"}

InitLearn ==
    /\ users = InitUsers
    /\ staff = InitStaff
    /\ sops = (1 :> SopRow("Intake", "Operations", "c1", 1))
    /\ sops_seq = 1
    /\ sop_versions = <<VersionRow(1, 1, "Intake", "Operations", "c1", 1)>>
    /\ acknowledgments = <<>>
    /\ training_modules = seed_loop(<<>>, {1})
    /\ training_questions = (1 :> "A")
    /\ training_attempts = <<>>
    /\ audit_log = HistoryAudit(<<>>)
    /\ now = 0
    /\ response = [handler |-> "none", request |-> <<>>, result |-> <<>>]
    /\ threads = NoRequests

SubmitAnswer ==
    /\ Len(training_attempts) < MaxSubmitted
    /\ \E u \in Submitters, answer \in Answers : learning_module_submit(u, 1, answer)

CheckLockout == CallIsLockedOut

TickLearn == now + HalfDay <= MaxDays * SecondsPerDay /\ Tick(HalfDay)

NextLearn == SubmitAnswer \/ CheckLockout \/ TickLearn

SpecLearn == InitLearn /\ [][NextLearn]_vars

Locked(module_id, staff_id) ==
    is_locked_out(module_id, staff_id, QUIZ_MAX_ATTEMPTS, QUIZ_LOCKOUT_HOURS)[1]

\* the request just handled was a submission of this user for this module
Submitted(u, module_id) ==
    /\ response'.handler = "learning_module_submit"
    /\ response'.request[1] = u
    /\ response'.request[2] = module_id

LockedAfterThreeFailures ==
    \A p \in Pairs :
        (/\ FailureCount(p[1], p[2], QUIZ_LOCKOUT_HOURS) >= QUIZ_MAX_ATTEMPTS
         /\ ~PassInWindow(p[1], p[2], QUIZ_LOCKOUT_HOURS)) => Locked(p[1], p[2])

PassInWindowUnlocks ==
    \A p \in Pairs :
        PassInWindow(p[1], p[2], QUIZ_LOCKOUT_HOURS)
            => is_locked_out(p[1], p[2], QUIZ_MAX_ATTEMPTS, QUIZ_LOCKOUT_HOURS) = <<FALSE, 0>>

NoAttemptWhileLocked ==
    \A u \in StaffUsers, m \in DOMAIN training_modules :
        (Locked(m, users[u].staff_id) /\ Submitted(u, m))
            => training_attempts' = training_attempts

SubmitStep(u, module_id) == Submitted(u, module_id) /\ now' = now

\* C11: every learning_module_submit evaluates the lockout before scoring: a
\* submission by a staff member whose pair is locked at that moment appends no
\* training_attempts row and writes no audit row, whether the answer is
\* correct or not, and is answered by the redirect back to the module page.
C11_LockedSubmissionNotRecorded ==
    [][\A u \in StaffUsers, m \in DOMAIN training_modules :
        (Locked(m, users[u].staff_id) /\ SubmitStep(u, m))
            => /\ AttemptsOf(m, users[u].staff_id)' = AttemptsOf(m, users[u].staff_id)
               /\ training_attempts' = training_attempts
               /\ audit_log' = audit_log
               /\ response'.result = <<303, "/learning/module/{module_id}">>]_vars

\* C11 witness: a locked pair submitted the correct answer and was turned
\* away
C11_Witness ==
    \E u \in StaffUsers, m \in DOMAIN training_modules :
        /\ Locked(m, users[u].staff_id)
        /\ response.handler = "learning_module_submit"
        /\ response.request[1] = u /\ response.request[2] = m
        /\ Score(response.request[3], training_questions[m]) = 100
        /\ response.result = <<303, "/learning/module/{module_id}">>

-----------------------------------------------------------------------------
(* Requests handled in parallel.  The handlers are plain functions, which  *)
(* the server runs on worker threads; each opens its own connection, and   *)
(* nothing holds a transaction from a handler's SELECTs to its INSERT or    *)
(* UPDATE.  A request is therefore three steps: its reads, its committed   *)
(* write, and the audit row written by _log_action on a further connection.*)

Thread(handler, pc, request, locals) ==
    [handler |-> handler, pc |-> pc, request |-> request, locals |-> locals]

At(t, handler, pc) == threads[t].handler = handler /\ threads[t].pc = pc

\* learning_module_submit down to the lockout check
learning_module_submit_check(t, u, module_id, answer) ==
    /\ threads[t] = Idle
    /\ u \in DOMAIN users
    /\ LET user == users[u]
           request == <<u, module_id, answer>> IN
        IF \/ user.staff_id = NULL
           \/ module_id \notin DOMAIN training_modules
           \/ module_id \notin DOMAIN training_questions
        THEN /\ response' = Response("learning_module_submit", request, 303, "/learning")
             /\ UNCHANGED threads
        ELSE IF locked_at_submit(module_id, user.staff_id)
        THEN /\ response' = Response("learning_module_submit", request, 303,
                                     "/learning/module/{module_id}")
             /\ UNCHANGED threads
        ELSE LET score == Score(answer, training_questions[module_id])
                 passed == Passed(score, training_modules[module_id].passing_score) IN
             /\ threads' = [threads EXCEPT ![t] =
                    Thread("learning_module_submit", "write", request, <<score, passed>>)]
             /\ UNCHANGED response
    /\ UNCHANGED <<users, staff, docVars, acknowledgments, learnVars, audit_log, now>>

\* INSERT INTO training_attempts ...; conn.commit()
learning_module_submit_insert(t) ==
    /\ At(t, "learning_module_submit", "write")
    /\ LET request == threads[t].request
           locals == threads[t].locals IN
        training_attempts' = Append(training_attempts,
            AttemptRow(request[2], users[request[1]].staff_id, locals[1], locals[2]))
    /\ threads' = [threads EXCEPT ![t].pc = "log"]
    /\ UNCHANGED <<users, staff, docVars, acknowledgments, training_modules,
                   training_questions, audit_log, now, response>>

\* _log_action(...); return RedirectResponse(url="/learning")
learning_module_submit_log(t) ==
    /\ At(t, "learning_module_submit", "log")
    /\ LET request == threads[t].request IN
        /\ audit_log' = _log_action(request[1], "training_attempt", "module", request[2],
                                    threads[t].locals[1])
        /\ response' = Response("learning_module_submit", request, 303, "/learning")
    /\ threads' = [threads EXCEPT ![t] = Idle]
    /\ UNCHANGED <<users, staff, docVars, acknowledgments, learnVars, now>>

\* admin_update down to new_version = existing["current_version"] + 1
admin_update_select(t, u, sop_id, title, category, content) ==
    /\ threads[t] = Idle
    /\ u \in Admins
    /\ IF sop_id \notin SopIds
       THEN /\ response' = Response("admin_update", <<u, sop_id>>, 302, "/admin")
            /\ UNCHANGED threads
       ELSE /\ threads' = [threads EXCEPT ![t] =
                    Thread("admin_update", "write", <<u, sop_id, title, category, content>>,
                           <<NewVersion(sops[sop_id])>>)]
            /\ UNCHANGED response
    /\ UNCHANGED <<users, staff, docVars, acknowledgments, learnVars, audit_log, now>>

\* UPDATE sops SET ..., current_version = ? WHERE id = ?; INSERT INTO
\* sop_versions ...; conn.commit()
admin_update_write(t) ==
    /\ At(t, "admin_update", "write")
    /\ LET request == threads[t].request
           sop_id == request[2]
           new_version == threads[t].locals[1] IN
        /\ sops' = IF sop_id \in SopIds
                   THEN [sops EXCEPT ![sop_id] =
                            SopRow(request[3], request[4], request[5], new_version)]
                   ELSE sops
        /\ sop_versions' = Append(sop_versions,
                VersionRow(sop_id, new_version, request[3], request[4], request[5], request[1]))
    /\ threads' = [threads EXCEPT ![t].pc = "log"]
    /\ UNCHANGED <<users, staff, sops_seq, acknowledgments, learnVars, audit_log, now, response>>

\* _log_action(...); return RedirectResponse(url="/admin")
admin_update_log(t) ==
    /\ At(t, "admin_update", "log")
    /\ LET request == threads[t].request IN
        /\ audit_log' = _log_action(request[1], "update", "sop", request[2], threads[t].locals[1])
        /\ response' = Response("admin_update", <<request[1], request[2]>>, 303, "/admin")
    /\ threads' = [threads EXCEPT ![t] = Idle]
    /\ UNCHANGED <<users, staff, docVars, acknowledgments, learnVars, now>>

\* acknowledge down to the read-time gate
acknowledge_select(t, u, sop_id, read_seconds) ==
    /\ threads[t] = Idle
    /\ u \in DOMAIN users
    /\ LET user == users[u]
           request == <<u, sop_id, read_seconds>> IN
        IF \/ user.staff_id = NULL
           \/ user.staff_id \notin DOMAIN staff
           \/ sop_id \notin SopIds
           \/ BelowMinimumReadTime(read_seconds)
        THEN /\ response' = Response("acknowledge", request, 303, "/sop/{sop_id}")
             /\ UNCHANGED threads
        ELSE /\ threads' = [threads EXCEPT ![t] =
                    Thread("acknowledge", "write", request,
                           <<AckVersion(sops[sop_id]), staff[user.staff_id].name>>)]
             /\ UNCHANGED response
    /\ UNCHANGED <<users, staff, docVars, acknowledgments, learnVars, audit_log, now>>

\* INSERT INTO acknowledgments ...; conn.commit()
acknowledge_insert(t) ==
    /\ At(t, "acknowledge", "write")
    /\ LET request == threads[t].request
           locals == threads[t].locals IN
        acknowledgments' = Append(acknowledgments,
            AckRow(request[2], users[request[1]].staff_id, locals[1], locals[2], request[3]))
    /\ threads' = [threads EXCEPT ![t].pc = "log"]
    /\ UNCHANGED <<users, staff, docVars, learnVars, audit_log, now, response>>

\* _log_action(...); return RedirectResponse(url=f"/sop/{sop_id}")
acknowledge_log(t) ==
    /\ At(t, "acknowledge", "log")
    /\ LET request == threads[t].request IN
        /\ audit_log' = _log_action(request[1], "acknowledged", "sop", request[2], "signature")
        /\ response' = Response("acknowledge", request, 303, "/sop/{sop_id}")
    /\ threads' = [threads EXCEPT ![t] = Idle]
    /\ UNCHANGED <<users, staff, docVars, acknowledgments, learnVars, now>>

Workers == DOMAIN threads

\* the requests that have not yet reached their write
Pending == {t \in Workers : threads[t].pc = "write"}

InFlight == {t \in Workers : threads[t] # Idle}

-----------------------------------------------------------------------------
(* Parallel quiz submissions of the seeded module                          *)

ParallelCheck ==
    /\ Len(training_attempts) + Cardinality(Pending) < MaxSubmitted
    /\ \E t \in Workers, u \in Submitters, answer \in Answers :
            learning_module_submit_check(t, u, 1, answer)

ParallelInsert == \E t \in Workers : learning_module_submit_insert(t)

ParallelLog == \E t \in Workers : learning_module_submit_log(t)

NextParallelSubmit == ParallelCheck \/ ParallelInsert \/ ParallelLog

SpecParallelSubmit == InitLearn /\ [][NextParallelSubmit]_vars

\* C12: under any interleaving of parallel learning_module_submit requests of
\* one staff member for one module, the failed attempts recorded inside one
\* lockout window that holds no pass never number more than max_attempts.
C12_AtomicSubmission ==
    \A p \in Pairs :
        ~PassInWindow(p[1], p[2], QUIZ_LOCKOUT_HOURS)
            => FailureCount(p[1], p[2], QUIZ_LOCKOUT_HOURS) <= QUIZ_MAX_ATTEMPTS

-----------------------------------------------------------------------------
(* Parallel edits and acknowledgments of one document                      *)

\* the store after admin_create of one document
InitDocument ==
    /\ users = InitUsers
    /\ staff = InitStaff
    /\ sops = (1 :> SopRow("Intake", "Operations", "c1", DefaultCurrentVersion))
    /\ sops_seq = 1
    /\ sop_versions = <<VersionRow(1, FirstVersion, "Intake", "Operations", "c1", 1)>>
    /\ acknowledgments = <<>>
    /\ training_modules = <<>>
    /\ training_questions = <<>>
    /\ training_attempts = <<>>
    /\ audit_log = <<[actor_user_id |-> 1, action |-> "create", entity_type |-> "sop",
                      entity_id |-> 1, details |-> "Intake"]>>
    /\ now = 0
    /\ response = [handler |-> "none", request |-> <<>>, result |-> <<>>]
    /\ threads = NoRequests

\* every request in flight writes one audit row
RoomForRequest == Len(audit_log) + Cardinality(InFlight) < MaxAudit

EditSelect ==
    /\ RoomForRequest
    /\ \E t \in Workers, content \in Contents :
            admin_update_select(t, 1, 1, "Intake", "Operations", content)

EditWrite == \E t \in Workers : admin_update_write(t)

EditLog == \E t \in Workers : admin_update_log(t)

AckSelect ==
    /\ RoomForRequest
    /\ \E t \in Workers : acknowledge_select(t, 2, 1, MIN_READ_SECONDS)

AckInsert == \E t \in Workers : acknowledge_insert(t)

AckLog == \E t \in Workers : acknowledge_log(t)

NextParallelEdit == EditSelect \/ EditWrite \/ EditLog \/ AckSelect \/ AckInsert \/ AckLog

SpecParallelEdit == InitDocument /\ [][NextParallelEdit]_vars

\* C13: parallel admin_update requests on one document serialize: no two
\* snapshots of the document share a version number and, once the requests
\* have returned, N edits leave current_version = N + 1 with exactly one
\* snapshot for each of 1..N+1.
C13_ConcurrentEditsSerialize ==
    \A sop_id \in SopIds :
        /\ \A i, j \in VersionRows(sop_id) :
                i # j => sop_versions[i].version # sop_versions[j].version
        /\ InFlight = {} =>
                /\ sops[sop_id].current_version = EditCount(sop_id) + 1
                /\ VersionNumbers(sop_id) = 1..(EditCount(sop_id) + 1)

\* C14: the sop_version of an acknowledgment equals the current_version the
\* document has in the store at the moment the acknowledgment is committed,
\* whatever admin_update requests run in parallel.
C14_AckVersionAtCommit ==
    [][\A t \in Workers :
        (At(t, "acknowledge", "write") /\ threads'[t].pc = "log")
            => LET row == acknowledgments'[Len(acknowledgments')] IN
                row.sop_version = sops'[row.sop_id].current_version]_vars

-----------------------------------------------------------------------------
(* Claims about the acknowledge handler                                    *)

\* the step handles an acknowledge request (the clock stands still while a
\* request is handled)
AckStep == response'.handler = "acknowledge" /\ now' = now

\* C15: an acknowledge call with read_seconds below MIN_READ_SECONDS leaves
\* the acknowledgments table as it was; a call with read_seconds at or above
\* the minimum, by a linked staff member for an existing document, appends
\* exactly one row, for that pair and with that read time.
C15_MinimumReadGate ==
    [][AckStep =>
        LET u == response'.request[1]
            sop_id == response'.request[2]
            read_seconds == response'.request[3] IN
        /\ read_seconds < MIN_READ_SECONDS => acknowledgments' = acknowledgments
        /\ (/\ read_seconds >= MIN_READ_SECONDS
            /\ users[u].staff_id \in DOMAIN staff
            /\ sop_id \in SopIds)
              => /\ Len(acknowledgments') = Len(acknowledgments) + 1
                 /\ SubSeq(acknowledgments', 1, Len(acknowledgments)) = acknowledgments
                 /\ LET row == acknowledgments'[Len(acknowledgments')] IN
                      /\ row.sop_id = sop_id
                      /\ row.staff_id = users[u].staff_id
                      /\ row.read_seconds = read_seconds]_vars

\* C15 witness: a call with read_seconds below the minimum was made when the
\* table already held rows, and every row of the table has a read time at or
\* above the minimum
C15_Witness ==
    /\ response.handler = "acknowledge"
    /\ response.request[3] < MIN_READ_SECONDS
    /\ acknowledgments # <<>>
    /\ \A i \in DOMAIN acknowledgments : acknowledgments[i].read_seconds >= MIN_READ_SECONDS

\* the age in days of the latest acknowledgment of a pair that has one
LatestAckAge(sop_id, staff_id) ==
    Today - DateOf(acknowledgments[LatestAck(sop_id, staff_id)].acknowledged_at)

\* counted for the document, counted for the person, and not on the overdue
\* list of the document, by compliance_dashboard with no date arguments
CountedEverywhere(sop_id, staff_id) ==
    /\ <<sop_id, staff_id>> \in latest_pairs(<<>>, <<>>)
    /\ sop_id \in staff_acked(staff_id, <<>>, <<>>)
    /\ staff_id \notin missing_staff(sop_id, <<>>, <<>>)

\* C16: an active staff member whose latest acknowledgment of a document is
\* more than REACK_DAYS days old is counted in no compliance numerator and is
\* on the document's overdue list; one whose latest acknowledgment is of the
\* current version and at most REACK_DAYS days old is counted and not overdue
\* (window 365: current through day 365, not current on day 366).
C16_Recency ==
    \A sop_id \in SopIds, s \in ActiveStaff :
        AcksOf(sop_id, s) # {} =>
            /\ LatestAckAge(sop_id, s) > REACK_DAYS
                => /\ ~CountedCompliant(sop_id, s)
                   /\ s \in missing_staff(sop_id, <<>>, <<>>)
            /\ (/\ LatestAckAge(sop_id, s) <= REACK_DAYS
                /\ acknowledgments[LatestAck(sop_id, s)].sop_version
                        = sops[sop_id].current_version)
                => CountedEverywhere(sop_id, s)

\* C16 witness: on day 366 after their latest acknowledgment of a document
\* an active member is on its overdue list
C16_Witness ==
    \E sop_id \in SopIds, s \in ActiveStaff :
        /\ AcksOf(sop_id, s) # {}
        /\ LatestAckAge(sop_id, s) = REACK_DAYS + 1
        /\ s \in missing_staff(sop_id, <<>>, <<>>)

\* C17: no acknowledgment and no training attempt is recorded for a staff
\* member whose active flag is 0: a request on behalf of a deactivated member
\* leaves acknowledgments and training_attempts unchanged.
C17_NoRecordForInactiveStaff ==
    [][/\ Len(acknowledgments') = Len(acknowledgments) + 1
            => staff[acknowledgments'[Len(acknowledgments')].staff_id].active = 1
       /\ Len(training_attempts') = Len(training_attempts) + 1
            => staff[training_attempts'[Len(training_attempts')].staff_id].active = 1]_vars

\* the date arguments of the dashboard: none, or a day
DateArgs == {<<>>, <<1>>}

IsActive(s) == s \in DOMAIN staff /\ staff[s].active = 1

\* the (document, member) pairs with an acknowledgment inside the dates
AckedPairs(start_date, end_date) ==
    {<<acknowledgments[i].sop_id, acknowledgments[i].staff_id>> :
        i \in {j \in DOMAIN acknowledgments :
                date_clause(acknowledgments[j], start_date, end_date)}}

\* C18: the overdue list of every document and the per-document, per-staff
\* and overall compliance counts hold only staff with active = 1, the
\* denominator is the number of active staff, and the acknowledgments of a
\* deactivated member add to no numerator.
C18_InactiveStaffExcluded ==
    \A start_date \in DateArgs, end_date \in DateArgs :
        /\ \A sop_id \in SopIds : \A s \in missing_staff(sop_id, start_date, end_date) : IsActive(s)
        /\ \A p \in latest_pairs(start_date, end_date) : IsActive(p[2])
        /\ \A sop_id \in SopIds :
                ack_by_sop(sop_id, start_date, end_date) =
                    Cardinality({p \in AckedPairs(start_date, end_date) :
                                    p[1] = sop_id /\ IsActive(p[2])})
        /\ \A s \in DOMAIN staff_completion(start_date, end_date) : IsActive(s)
        /\ total_required = Cardinality({s \in DOMAIN staff : IsActive(s)}) * Cardinality(SopIds)
        /\ total_ack_pairs(start_date, end_date) =
                Cardinality({p \in AckedPairs(start_date, end_date) : IsActive(p[2])})

\* C18 witness: a member who acknowledged a document inside the window was
\* deactivated afterwards, while another member is active
C18_Witness ==
    \E p \in AckedPairs(<<>>, <<>>) :
        /\ p[1] \in SopIds
        /\ ~IsActive(p[2])
        /\ ActiveStaff # {}
        /\ total_ack_pairs(<<>>, <<>>) < Cardinality(AckedPairs(<<>>, <<>>))

-----------------------------------------------------------------------------
(* The training roll-ups of compliance_dashboard and learning_reports      *)

\* SELECT id, title, recert_days FROM training_modules WHERE active = 1
ActiveModules == {m \in DOMAIN training_modules : training_modules[m].active = 1}

module_count == Cardinality(ActiveModules)

\* last_pass and date.today() <= due_date
PassInForce(module_id, staff_id) ==
    LET last_pass == LastPassAt(module_id, staff_id) IN
    /\ last_pass # <<>>
    /\ Today <= DateOf(last_pass[1]) + training_modules[module_id].recert_days

\* the modules counted for one member
ModulesInForce(staff_id) == {m \in ActiveModules : PassInForce(m, staff_id)}

\* learning_reports: staff_rows and overdue_rows
staff_rows ==
    [s \in ActiveStaff |->
        LET passed == Cardinality(ModulesInForce(s)) IN
        [passed |-> passed, total |-> module_count, percent |-> percent(passed, module_count)]]

overdue_rows == {<<s, m>> \in ActiveStaff \X ActiveModules : ~PassInForce(m, s)}

learning_reports == [staff_rows |-> staff_rows, overdue_rows |-> overdue_rows]

\* compliance_dashboard: lms_staff_rows and lms_overdue_rows, built only
\* "if staff and modules"
lms_staff_rows ==
    IF ActiveStaff # {} /\ ActiveModules # {}
    THEN [s \in ActiveStaff |->
            LET completed == Cardinality(ModulesInForce(s)) IN
            [completed |-> completed, total |-> module_count,
             percent |-> percent(completed, module_count)]]
    ELSE <<>>

lms_overdue_rows ==
    IF ActiveStaff # {} /\ ActiveModules # {}
    THEN {<<s, m>> \in ActiveStaff \X ActiveModules : ~PassInForce(m, s)}
    ELSE {}

\* the values compliance_dashboard hands to its template
compliance_dashboard(start_date, end_date) ==
    [staff_count |-> staff_count,
     sop_count |-> sop_count,
     overall_percent |-> overall_percent(start_date, end_date),
     ack_by_sop |-> [sop_id \in SopIds |-> ack_by_sop(sop_id, start_date, end_date)],
     staff_completion |-> staff_completion(start_date, end_date),
     overdue |-> [sop_id \in overdue(start_date, end_date) |->
                    missing_staff(sop_id, start_date, end_date)],
     lms_staff_rows |-> lms_staff_rows,
     lms_overdue_rows |-> lms_overdue_rows,
     lms_module_count |-> module_count]

-----------------------------------------------------------------------------
(* The roll-ups over any tables: rosters with any active flags, no or one  *)
(* document, no or one module, any selection of the candidate              *)
(* acknowledgment and attempt rows, read two days and 400 days after the   *)
(* first row.                                                              *)

\* rows in the order of their insertion
AckCandidates ==
    <<[sop_id |-> 1, staff_id |-> 1, sop_version |-> 1, staff_name |-> "Alice",
       read_seconds |-> MIN_READ_SECONDS, acknowledged_at |-> 0],
      [sop_id |-> 1, staff_id |-> 2, sop_version |-> 1, staff_name |-> "Bob",
       read_seconds |-> MIN_READ_SECONDS, acknowledged_at |-> 0],
      [sop_id |-> 1, staff_id |-> 1, sop_version |-> 1, staff_name |-> "Alice",
       read_seconds |-> MIN_READ_SECONDS, acknowledged_at |-> SecondsPerDay]>>

AttemptCandidates ==
    <<[module_id |-> 1, staff_id |-> 1, score |-> 0, passed |-> 0, attempted_at |-> 0],
      [module_id |-> 1, staff_id |-> 1, score |-> 100, passed |-> 1, attempted_at |-> 0],
      [module_id |-> 1, staff_id |-> 2, score |-> 100, passed |-> 1, attempted_at |-> SecondsPerDay]>>

\* the rows of a table whose positions are chosen
RECURSIVE Pick(_, _, _)
Pick(rows, chosen, i) ==
    IF i > Len(rows) THEN <<>>
    ELSE (IF i \in chosen THEN <<rows[i]>> ELSE <<>>) \o Pick(rows, chosen, i + 1)

Tables(rows) == {Pick(rows, chosen, 1) : chosen \in SUBSET (1..Len(rows))}

Rosters ==
    {[i \in DOMAIN InitStaff |-> [InitStaff[i] EXCEPT !.active = flags[i]]] :
        flags \in [DOMAIN InitStaff -> {0, 1}]}

ReadingTimes == {2 * SecondsPerDay, 400 * SecondsPerDay}

\* the audit rows of the requests that filled the tables
RollupAudit(roster, documents, modules, acks, attempts) ==
    [i \in 1..documents |->
        [actor_user_id |-> 1, action |-> "create", entity_type |-> "sop",
         entity_id |-> 1, details |-> "Intake"]]
    \o [i \in 1..modules |->
        [actor_user_id |-> 1, action |-> "seed", entity_type |-> "training",
         entity_id |-> NULL, details |-> 1]]
    \o [i \in 1..modules |->
        [actor_user_id |-> 1, action |-> "update", entity_type |-> "training_module",
         entity_id |-> 1, details |-> "question_updated"]]
    \o [i \in 1..Len(acks) |->
        [actor_user_id |-> acks[i].staff_id + 1, action |-> "acknowledged",
         entity_type |-> "sop", entity_id |-> 1, details |-> "signature"]]
    \o [i \in 1..Len(attempts) |->
        [actor_user_id |-> attempts[i].staff_id + 1, action |-> "training_attempt",
         entity_type |-> "module", entity_id |-> 1, details |-> attempts[i].score]]
    \o Pick([i \in DOMAIN roster |->
                [actor_user_id |-> 1, action |-> "toggle", entity_type |-> "staff",
                 entity_id |-> i, details |-> "active"]],
            {i \in DOMAIN roster : roster[i].active = 0}, 1)

InitRollup ==
    /\ users = InitUsers
    /\ staff \in Rosters
    /\ \E documents \in {0, 1}, modules \in {0, 1} :
        /\ modules <= documents
        /\ sops = [i \in 1..documents |-> SopRow("Intake", "Operations", "c1", 1)]
        /\ sops_seq = documents
        /\ sop_versions = [i \in 1..documents |->
                            VersionRow(1, 1, "Intake", "Operations", "c1", 1)]
        /\ acknowledgments \in (IF documents = 1 THEN Tables(AckCandidates) ELSE {<<>>})
        /\ training_modules = [i \in 1..modules |-> ModuleRow(1, 80, 365)]
        /\ training_questions = [i \in 1..modules |-> "A"]
        /\ training_attempts \in (IF modules = 1 THEN Tables(AttemptCandidates) ELSE {<<>>})
        /\ audit_log = RollupAudit(staff, documents, modules, acknowledgments,
                                   training_attempts)
    /\ now \in ReadingTimes
    /\ response = [handler |-> "none", request |-> <<>>, result |-> <<>>]
    /\ threads = NoRequests

ViewCompliance ==
    /\ \E start_date \in DateArgs, end_date \in DateArgs :
        response' = Returned("compliance_dashboard", <<start_date, end_date>>,
                             compliance_dashboard(start_date, end_date))
    /\ UNCHANGED <<threads, users, staff, docVars, acknowledgments, learnVars, audit_log, now>>

ViewLearningReports ==
    /\ response' = Returned("learning_reports", <<>>, learning_reports)
    /\ UNCHANGED <<threads, users, staff, docVars, acknowledgments, learnVars, audit_log, now>>

NextRollup == ViewCompliance \/ ViewLearningReports

SpecRollup == InitRollup /\ [][NextRollup]_vars

\* no row of a roll-up shows a percent other than 0
AllPercentZero(rows) == \A s \in DOMAIN rows : rows[s].percent[1] = 0

\* C19: with no active staff or no document, compliance_dashboard yields
\* overall and per-staff percent 0 and an empty overdue list; with no active
\* staff or no active module its training roll-up and learning_reports yield
\* per-staff percent 0 and empty overdue lists; whatever the acknowledgment
\* and attempt tables hold, and with every value defined (no division by 0).
C19_ZeroDenominatorSafety ==
    /\ (ActiveStaff = {} \/ SopIds = {}) =>
        \A start_date \in DateArgs, end_date \in DateArgs :
            LET view == compliance_dashboard(start_date, end_date) IN
            /\ view.overall_percent = <<0, 1>>
            /\ AllPercentZero(view.staff_completion)
            /\ DOMAIN view.overdue = {}
    /\ (ActiveStaff = {} \/ ActiveModules = {}) =>
        /\ AllPercentZero(compliance_dashboard(<<>>, <<>>).lms_staff_rows)
        /\ compliance_dashboard(<<>>, <<>>).lms_overdue_rows = {}
        /\ AllPercentZero(learning_reports.staff_rows)
        /\ learning_reports.overdue_rows = {}
    /\ \A start_date \in DateArgs, end_date \in DateArgs :
        LET view == compliance_dashboard(start_date, end_date) IN
        /\ view.overall_percent[2] # 0
        /\ \A s \in DOMAIN view.staff_completion : view.staff_completion[s].percent[2] # 0
        /\ \A s \in DOMAIN view.lms_staff_rows : view.lms_staff_rows[s].percent[2] # 0
        /\ \A s \in DOMAIN learning_reports.staff_rows :
                learning_reports.staff_rows[s].percent[2] # 0

\* C19 witness: compliance_dashboard was read with every member deactivated
\* while the tables hold acknowledgments and passed attempts, and returned
\* overall percent 0
C19_Witness ==
    /\ ActiveStaff = {}
    /\ acknowledgments # <<>>
    /\ \E i \in DOMAIN training_attempts : training_attempts[i].passed = 1
    /\ response.handler = "compliance_dashboard"
    /\ response.result.overall_percent = <<0, 1>>
    /\ response.result.staff_count = 0

\* C20: the compliance of a (document, member) pair is decided by its latest
\* acknowledgment, the one with the greatest timestamp and, among rows of the
\* same timestamp, the highest id: the pair is counted exactly when that row
\* lies inside the window and carries the document's current version.
C20_LatestAckDecides ==
    \A sop_id \in SopIds, s \in ActiveStaff :
        CountedCompliant(sop_id, s) <=>
            /\ AcksOf(sop_id, s) # {}
            /\ LatestAckAge(sop_id, s) <= REACK_DAYS
            /\ acknowledgments[LatestAck(sop_id, s)].sop_version = sops[sop_id].current_version

-----------------------------------------------------------------------------
(* Module compliance in the roll-ups and in module_status                  *)

\* C21: for every attempt history and date, compliance_dashboard and
\* learning_reports count an (active module, active member) pair as
\* completed exactly when module_status returns passed for it, and list it
\* as overdue otherwise.
C21_ModuleComplianceUsesStatus ==
    \A m \in ActiveModules, s \in ActiveStaff :
        \A r \in module_status(m, s) :
            /\ (r[1] = "passed") <=> (m \in ModulesInForce(s))
            /\ (r[1] # "passed") <=> (<<s, m>> \in learning_reports.overdue_rows)
            /\ (r[1] # "passed") <=> (<<s, m>> \in compliance_dashboard(<<>>, <<>>).lms_overdue_rows)

-----------------------------------------------------------------------------
(* The reporting window of compliance_dashboard                            *)

\* the first day of the window: the later of today - REACK_DAYS and the
\* start date asked for
WindowStart(start_date) == Max({Today - REACK_DAYS} \cup Range(start_date))

\* the acknowledgment is dated before the first or after the last day of the
\* window
OutsideWindow(a, start_date, end_date) ==
    \/ DateOf(a.acknowledged_at) < WindowStart(start_date)
    \/ \E last \in Range(end_date) : DateOf(a.acknowledged_at) > last

\* the pair has an acknowledgment that is not outside the window
AckedInWindow(sop_id, staff_id, start_date, end_date) ==
    \E i \in AcksOf(sop_id, staff_id) :
        ~OutsideWindow(acknowledgments[i], start_date, end_date)

\* C22: for every reporting window, the per-document, per-category, per-staff
\* and overall numerators of compliance_dashboard count exactly the pairs of
\* an active member and a document that have an acknowledgment dated inside
\* [effectiveStart, effectiveEnd], so an acknowledgment outside the window
\* adds to none of them; and an active member whose acknowledgments of a
\* document all lie outside the window is on that document's overdue list.
C22_WindowRestriction ==
    \A start_date \in DateArgs, end_date \in DateArgs :
        LET inside == {<<sop_id, s>> \in SopIds \X ActiveStaff :
                            AckedInWindow(sop_id, s, start_date, end_date)}
            view == compliance_dashboard(start_date, end_date) IN
        /\ \A sop_id \in SopIds :
                view.ack_by_sop[sop_id] = Cardinality({p \in inside : p[1] = sop_id})
        /\ \A c \in Categories :
                ack_by_category(c, start_date, end_date) =
                    Cardinality({p \in inside : sops[p[1]].category = c})
        /\ \A s \in ActiveStaff :
                view.staff_completion[s].acked = Cardinality({p \in inside : p[2] = s})
        /\ total_ack_pairs(start_date, end_date) = Cardinality(inside)
        /\ \A sop_id \in SopIds, s \in ActiveStaff :
                <<sop_id, s>> \notin inside
                    => sop_id \in DOMAIN view.overdue /\ s \in view.overdue[sop_id]

\* C22 witness: an active member acknowledged a document the day before and
\* the day after the one-day window [1, 1] and is on the document's overdue
\* list for that window, while being counted when no dates are given
C22_Witness ==
    \E sop_id \in SopIds, s \in ActiveStaff :
        /\ \E i \in AcksOf(sop_id, s) : DateOf(acknowledgments[i].acknowledged_at) = 0
        /\ \E i \in AcksOf(sop_id, s) : DateOf(acknowledgments[i].acknowledged_at) = 2
        /\ s \in missing_staff(sop_id, <<1>>, <<1>>)
        /\ ack_by_sop(sop_id, <<1>>, <<1>>) = 0
        /\ ack_by_sop(sop_id, <<>>, <<>>) > 0

-----------------------------------------------------------------------------
(* What a caller of acknowledge is told                                    *)

\* the request handled last was an acknowledge that wrote the last row of
\* the table (and its audit row) at the present second
AcknowledgedLast ==
    /\ response.handler = "acknowledge"
    /\ acknowledgments # <<>>
    /\ audit_log # <<>>
    /\ LET row == acknowledgments[Len(acknowledgments)]
           entry == audit_log[Len(audit_log)] IN
        /\ row.acknowledged_at = now
        /\ row.sop_id = response.request[2]
        /\ row.staff_id = users[response.request[1]].staff_id
        /\ row.read_seconds = response.request[3]
        /\ entry.action = "acknowledged"
        /\ entry.actor_user_id = response.request[1]
        /\ entry.entity_id = response.request[2]

\* C23: a rejected acknowledge call (read time below the minimum, unknown
\* document, unlinked or unknown staff member) returns a result that differs
\* from the result returned when the record was written: an acknowledge
\* call for the same document that follows a recorded one and is itself
\* rejected does not return the result the recorded one returned.
C23_RejectionsDistinguishable ==
    [][(/\ AcknowledgedLast
        /\ AckStep
        /\ response'.request[2] = response.request[2]
        /\ acknowledgments' = acknowledgments)
            => response'.result # response.result]_vars

-----------------------------------------------------------------------------
(* The audit trail of the requests                                         *)

\* the step appends exactly one audit row, written by this actor for this
\* action on this entity
AuditedOnce(actor, action, entity_type, entity_id) ==
    /\ Len(audit_log') = Len(audit_log) + 1
    /\ SubSeq(audit_log', 1, Len(audit_log)) = audit_log
    /\ LET entry == audit_log'[Len(audit_log')] IN
        /\ entry.actor_user_id = actor
        /\ entry.action = action
        /\ entry.entity_type = entity_type
        /\ entry.entity_id = entity_id

\* the step appends at least one audit row about this module
AuditedModule(module_id) ==
    /\ Len(audit_log') > Len(audit_log)
    /\ \E i \in (Len(audit_log) + 1)..Len(audit_log') :
            audit_log'[i].entity_id = module_id

\* C24: a submission that records a training attempt writes exactly one
\* audit_log entry for it, and a submission rejected because the pair is
\* locked out writes a lockout audit entry.
C24_AuditCoverage ==
    [][\A u \in StaffUsers, m \in DOMAIN training_modules :
        SubmitStep(u, m) =>
            /\ Len(training_attempts') = Len(training_attempts) + 1
                => AuditedOnce(u, "training_attempt", "module", m)
            /\ Locked(m, users[u].staff_id) => AuditedModule(m)]_vars

-----------------------------------------------------------------------------
(* The record tables under every writer: documents are created, edited and *)
(* imported, staff acknowledge and are (de)activated, modules are seeded   *)
(* and reconfigured, answers are submitted.                                *)

SeedModules ==
    \E u \in TrainingLeads : CanAudit /\ learning_admin_seed(u)

\* the module form: passing_score, recert_days and the correct option
PassingScores == {0, 80}

Reconfigure ==
    \E u \in TrainingLeads, m \in DOMAIN training_modules, passing_score \in PassingScores :
        CanAudit /\ learning_admin_update(u, m, passing_score, 365, "a")

SubmitOne ==
    \E u \in StaffUsers, m \in DOMAIN training_modules, answer \in Answers :
        CanAudit /\ learning_module_submit(u, m, answer)

AcknowledgeRead ==
    \E u \in StaffUsers, id \in SopIds :
        CanAudit /\ acknowledge(u, id, MIN_READ_SECONDS)

NextRecords ==
    \/ CreateDocument \/ EditOne \/ ImportDocuments
    \/ AcknowledgeRead \/ ToggleStaff
    \/ SeedModules \/ Reconfigure \/ SubmitOne

SpecRecords == Init /\ [][NextRecords]_vars

\* every row the table held is still there, in its place and unchanged
AppendOnly(table) ==
    /\ Len(table') >= Len(table)
    /\ SubSeq(table', 1, Len(table)) = table

\* C25: acknowledgments, sop_versions, training_attempts and audit_log are
\* append-only: no operation (acknowledge, admin_create, admin_update,
\* learning_module_submit, staff toggle, module seeding and reconfiguration,
\* import_sops with its deduplication and init_db re-run) removes a row of
\* these tables or changes a field of one.
C25_AppendOnlyRecords ==
    [][/\ AppendOnly(acknowledgments)
       /\ AppendOnly(sop_versions)
       /\ AppendOnly(training_attempts)
       /\ AppendOnly(audit_log)]_vars

-----------------------------------------------------------------------------
(* Scoring under a changing pass mark: answers are submitted to a seeded   *)
(* module whose passing_score is changed between submissions.              *)

\* the model stops taking requests once they have written MaxSubmitted
\* audit rows
CanRequest == Len(audit_log) < Len(HistoryAudit(<<>>)) + MaxSubmitted

SubmitScored ==
    \E u \in Submitters, m \in DOMAIN training_modules, answer \in Answers :
        CanRequest /\ learning_module_submit(u, m, answer)

\* the pass mark is changed; recert_days and the question stay as they are
ChangePassingScore ==
    \E u \in TrainingLeads, m \in DOMAIN training_modules, passing_score \in PassingScores :
        /\ CanRequest
        /\ learning_admin_update(u, m, passing_score, training_modules[m].recert_days, "a")

NextScoring == SubmitScored \/ ChangePassingScore \/ CallModuleStatus

SpecScoring == InitLearn /\ [][NextScoring]_vars

\* the step handles a learning_admin_update request
ReconfigureStep == response'.handler = "learning_admin_update" /\ now' = now

\* every attempt recorded by the step carries passed = 1 exactly when its
\* score is at or above the passing_score the module has at that moment
PassedAsScored ==
    \A u \in DOMAIN users, m \in DOMAIN training_modules :
        (SubmitStep(u, m) /\ Len(training_attempts') = Len(training_attempts) + 1)
            => LET row == training_attempts'[Len(training_attempts')] IN
                /\ row.module_id = m
                /\ row.passed \in {0, 1}
                /\ row.passed = 1 <=> row.score >= training_modules[m].passing_score

\* a change of passing_score leaves the stored attempts and every status
\* computed from them as they were
PassedNotRederived ==
    (ReconfigureStep /\ training_modules' # training_modules)
        => /\ training_attempts' = training_attempts
           /\ \A p \in Pairs : module_status(p[1], p[2])' = module_status(p[1], p[2])
           /\ learning_reports' = learning_reports
           /\ lms_staff_rows' = lms_staff_rows
           /\ lms_overdue_rows' = lms_overdue_rows

\* C26: every training attempt is recorded with passed = 1 exactly when its
\* score >= the module's passing_score in force at submission, and changing
\* the passing_score through learning_admin_update changes neither the
\* stored attempts nor the status computed from them by module_status,
\* learning_reports and compliance_dashboard.
C26_PassedFixedAtSubmission ==
    [][PassedAsScored /\ PassedNotRederived]_vars

\* C26 witness: an attempt recorded as passed with score 0 under
\* passing_score 0 is still stored as passed, and counted, after the
\* passing_score was changed to 80
C26_Witness ==
    /\ response.handler = "learning_admin_update"
    /\ \E i \in DOMAIN training_attempts :
        LET row == training_attempts[i] IN
        /\ row.passed = 1
        /\ row.score < training_modules[row.module_id].passing_score
        /\ Returns(row.module_id, row.staff_id, "passed")
        /\ row.module_id \in ModulesInForce(row.staff_id)

-----------------------------------------------------------------------------
(* Failures after a pass                                                   *)

\* the failed attempts of the pair inside the window that were recorded
\* after a passing attempt inside the window
FailuresAfterPass(module_id, staff_id) ==
    LET window == InWindow(module_id, staff_id, QUIZ_LOCKOUT_HOURS) IN
    {i \in window :
        /\ training_attempts[i].passed = 0
        /\ \E j \in window : training_attempts[j].passed = 1 /\ j < i}

\* C27: a pass anywhere in the trailing window unlocks regardless of order:
\* when a passing attempt is followed, inside the same window, by
\* max_attempts or more failed attempts, is_locked_out returns (false, 0),
\* and every submission of a pair that has a pass inside the window is
\* recorded, however many failed attempts follow that pass.
C27_PassUnlocksRegardlessOfOrder ==
    /\ [](\A p \in Pairs :
            Cardinality(FailuresAfterPass(p[1], p[2])) >= QUIZ_MAX_ATTEMPTS
                => is_locked_out(p[1], p[2], QUIZ_MAX_ATTEMPTS, QUIZ_LOCKOUT_HOURS)
                        = <<FALSE, 0>>)
    /\ [][\A u \in StaffUsers, m \in DOMAIN training_modules :
            (PassInWindow(m, users[u].staff_id, QUIZ_LOCKOUT_HOURS) /\ SubmitStep(u, m))
                => /\ Len(training_attempts') = Len(training_attempts) + 1
                   /\ response'.result = <<303, "/learning">>]_vars

\* C27 witness: a wrong answer was recorded for a pair that already had a
\* pass followed by max_attempts failed attempts inside the window
C27_Witness ==
    \E u \in StaffUsers, m \in DOMAIN training_modules :
        /\ Cardinality(FailuresAfterPass(m, users[u].staff_id)) > QUIZ_MAX_ATTEMPTS
        /\ response.handler = "learning_module_submit"
        /\ response.request[1] = u /\ response.request[2] = m
        /\ training_attempts[Len(training_attempts)].passed = 0
        /\ training_attempts[Len(training_attempts)].attempted_at = now
        /\ ~Locked(m, users[u].staff_id)

-----------------------------------------------------------------------------
(* Seeding: documents are created and imported, and modules are seeded,    *)
(* in any order.                                                           *)

NextSeed == CreateDocument \/ ImportDocuments \/ SeedModules

SpecSeed == Init /\ [][NextSeed]_vars

\* the training_modules rows of a document
ModulesOf(sop_id) == {m \in DOMAIN training_modules : training_modules[m].sop_id = sop_id}

\* the step handles a learning_admin_seed request, whose audit row carries
\* the count seed_modules returned
SeedStep == response'.handler = "learning_admin_seed" /\ now' = now

Created == audit_log[Len(audit_log)].details

\* C28: every document has at most one training module; after a
\* seed_modules call every document existing at that call has exactly one;
\* and a call that directly follows another creates nothing and returns 0.
C28_SeedIdempotent ==
    /\ [](\A sop_id \in SopIds : Cardinality(ModulesOf(sop_id)) <= 1)
    /\ [][SeedStep =>
            /\ SopIds' = SopIds
            /\ \A sop_id \in SopIds : Cardinality(ModulesOf(sop_id)') = 1
            /\ Created' = Len(training_modules') - Len(training_modules)
            /\ response.handler = "learning_admin_seed"
                => training_modules' = training_modules /\ Created' = 0]_vars

\* C28 witness: a second consecutive call returned 0 after the first had
\* created the modules of two documents
C28_Witness ==
    /\ response.handler = "learning_admin_seed"
    /\ Len(audit_log) >= 2
    /\ Created = 0
    /\ audit_log[Len(audit_log) - 1].action = "seed"
    /\ audit_log[Len(audit_log) - 1].details > 0
    /\ Cardinality(SopIds) = 2
    /\ \A sop_id \in SopIds : Cardinality(ModulesOf(sop_id)) = 1

-----------------------------------------------------------------------------
(* Edits of any document id: documents are created and imported (an import *)
(* removes duplicates), and edits are posted for ids that exist, that were *)
(* removed and that were never given out.                                  *)

EditAny ==
    \E u \in Admins, id \in 1..(MaxSops + 1) :
        CanAudit /\ admin_update(u, id, "Intake", "Operations", "c2")

NextEdits == CreateDocument \/ ImportDocuments \/ EditAny

SpecEdits == Init /\ [][NextEdits]_vars

\* the step handles an admin_update request
EditStep == response'.handler = "admin_update" /\ now' = now

\* C29: an admin_update for a document id that does not exist is answered
\* by the not-found outcome (the 302 redirect, where a performed edit is
\* answered by 303) and changes nothing: no sops row is created or modified,
\* no sop_versions row is appended and no audit entry is written.
C29_EditUnknownDocument ==
    [][EditStep =>
        LET sop_id == response'.request[2] IN
        /\ sop_id \notin SopIds
            => /\ sops' = sops
               /\ sops_seq' = sops_seq
               /\ sop_versions' = sop_versions
               /\ audit_log' = audit_log
               /\ response'.result = <<302, "/admin">>
        /\ sop_id \in SopIds
            => /\ sop_versions' # sop_versions
               /\ response'.result # <<302, "/admin">>]_vars

\* C29 witness: an edit was posted for a document that an import had removed
\* as a duplicate and was answered by the 302 redirect; the tables hold the
\* kept document, both first versions, and no audit row of an update
C29_Witness ==
    /\ response.handler = "admin_update"
    /\ response.result = <<302, "/admin">>
    /\ response.request[2] \notin SopIds
    /\ response.request[2] <= sops_seq
    /\ SopIds # {}
    /\ Len(sop_versions) = 2
    /\ \A i \in DOMAIN audit_log : audit_log[i].action # "update"

-----------------------------------------------------------------------------
(* The lockout check against the wall clock.  attempted_at is stamped by   *)
(* SQLite's datetime('now') and the window is measured from                *)
(* datetime.utcnow(): both read the system clock, which can be set back    *)
(* between the two, so the present of a check is any of the clock times,   *)
(* before or after the stored attempts.                                    *)

\* the present: on the grid, a day after its origin, and a second later
ClockTimes == {0, HalfDay, SecondsPerDay, SecondsPerDay + 1}

InitClock ==
    /\ users = InitUsers
    /\ staff = InitStaff
    /\ sops = (1 :> SopRow("Intake", "Operations", "c1", 1))
    /\ sops_seq = 1
    /\ sop_versions = <<VersionRow(1, 1, "Intake", "Operations", "c1", 1)>>
    /\ acknowledgments = <<>>
    /\ training_modules = seed_loop(<<>>, {1})
    /\ training_questions = (1 :> "A")
    /\ training_attempts \in Histories
    /\ audit_log = HistoryAudit(training_attempts)
    /\ now \in ClockTimes
    /\ response = [handler |-> "none", request |-> <<>>, result |-> <<>>]
    /\ threads = NoRequests

SpecClock == InitClock /\ [][CallIsLockedOut]_vars

\* the attempts of the pair timestamped inside [now - lockout_hours, now]
ClosedWindow(module_id, staff_id, lockout_hours) ==
    {i \in AttemptsOf(module_id, staff_id) :
        /\ training_attempts[i].attempted_at >= now - lockout_hours * SecondsPerHour
        /\ training_attempts[i].attempted_at <= now}

-----------------------------------------------------------------------------
(* The statuses module_status can return for a pair                        *)

Statuses(module_id, staff_id) == {r[1] : r \in module_status(module_id, staff_id)}

\* C31: module_status returns not_started for a (module, staff) pair exactly
\* when no attempt has been recorded for the pair; once an attempt exists
\* the status is passed or due, and since no step removes an attempt of a
\* pair it is passed or due in every later state.
C31_NotStartedIffNoAttempt ==
    /\ [](\A p \in Pairs :
            /\ AttemptsOf(p[1], p[2]) = {} => Statuses(p[1], p[2]) = {"not_started"}
            /\ AttemptsOf(p[1], p[2]) # {} => Statuses(p[1], p[2]) \subseteq {"passed", "due"})
    /\ [][\A p \in Pairs :
            AttemptsOf(p[1], p[2]) \subseteq AttemptsOf(p[1], p[2])']_vars

\* C31 witness: a pair whose only attempts failed is due a day after the
\* first of them, while a pair without attempts is not_started
C31_Witness ==
    \E p \in Pairs, q \in Pairs :
        /\ AttemptsOf(p[1], p[2]) # {}
        /\ PassesOf(p[1], p[2]) = {}
        /\ \E i \in AttemptsOf(p[1], p[2]) :
                training_attempts[i].attempted_at + SecondsPerDay <= now
        /\ Statuses(p[1], p[2]) = {"due"}
        /\ AttemptsOf(q[1], q[2]) = {}
        /\ Statuses(q[1], q[2]) = {"not_started"}

-----------------------------------------------------------------------------
(* Waiting out a lockout: any attempt history of one member, up to one     *)
(* attempt more than QUIZ_MAX_ATTEMPTS, and then nothing but the clock     *)
(* (in 12-hour steps, until every window has passed) and lockout checks.   *)

ExpiryRows ==
    {[module_id |-> 1, staff_id |-> 1, score |-> 100 * p, passed |-> p, attempted_at |-> t] :
        p \in {0, 1}, t \in Grid}

ExpiryHistories ==
    {h \in UNION {[1..n -> ExpiryRows] : n \in 0..(QUIZ_MAX_ATTEMPTS + 1)} :
        \A i \in 1..(Len(h) - 1) : h[i].attempted_at <= h[i + 1].attempted_at}

\* the clock stops half a day after the window of the latest grid time
ExpiryEnd == Max(Grid) + QUIZ_LOCKOUT_HOURS * SecondsPerHour + HalfDay

InitExpiry ==
    /\ users = InitUsers
    /\ staff = InitStaff
    /\ sops = (1 :> SopRow("Intake", "Operations", "c1", 1))
    /\ sops_seq = 1
    /\ sop_versions = <<VersionRow(1, 1, "Intake", "Operations", "c1", 1)>>
    /\ acknowledgments = <<>>
    /\ training_modules = seed_loop(<<>>, {1})
    /\ training_questions = (1 :> "A")
    /\ training_attempts \in ExpiryHistories
    /\ audit_log = HistoryAudit(training_attempts)
    /\ now \in {t \in Grid : \A i \in DOMAIN training_attempts :
                                training_attempts[i].attempted_at <= t}
    /\ response = [handler |-> "none", request |-> <<>>, result |-> <<>>]
    /\ threads = NoRequests

TickExpiry == now + HalfDay <= ExpiryEnd /\ Tick(HalfDay)

NextExpiry == TickExpiry \/ CallIsLockedOut

\* time does advance
SpecExpiry == InitExpiry /\ [][NextExpiry]_vars /\ WF_vars(TickExpiry)

\* the time of the most recent failed attempt of a pair that has one
MostRecentFailure(module_id, staff_id) ==
    Max({training_attempts[i].attempted_at :
            i \in {j \in AttemptsOf(module_id, staff_id) : training_attempts[j].passed = 0}})

HasFailure(module_id, staff_id) ==
    \E i \in AttemptsOf(module_id, staff_id) : training_attempts[i].passed = 0

SomeLocked == \E p \in Pairs : Locked(p[1], p[2])

-----------------------------------------------------------------------------
(* What admin_staff_toggle changes                                         *)

\* the step handles an admin_staff_toggle request
ToggleStep == response'.handler = "admin_staff_toggle" /\ now' = now

\* the staff table differs from the one before the step in the active flag
\* of this member and in nothing else
OnlyFlagFlipped(staff_id) ==
    /\ DOMAIN staff' = DOMAIN staff
    /\ \A i \in DOMAIN staff :
        /\ staff'[i].name = staff[i].name
        /\ staff'[i].normalized_name = staff[i].normalized_name
        /\ i # staff_id => staff'[i].active = staff[i].active
        /\ i = staff_id => {staff'[i].active, staff[i].active} = {0, 1}

\* C33 as stated: admin_staff_toggle changes only the member's active flag;
\* acknowledgments, training attempts, audit entries and the other staff
\* rows are as before, so that a second toggle restores the exact prior
\* state.
C33_ToggleChangesOnlyFlag ==
    [][ToggleStep =>
        /\ OnlyFlagFlipped(response'.request[2])
        /\ UNCHANGED <<users, docVars, acknowledgments, learnVars, audit_log>>]_vars

\* C33 amended: admin_staff_toggle flips the member's active flag and
\* appends one 'toggle' row to audit_log; the other staff rows, the
\* acknowledgments, the training attempts and the audit entries already
\* written are unchanged, and a second toggle of the same member, applied
\* to the table the step leaves, gives back the staff table from before the
\* step (and with it every compliance count), while audit_log keeps the
\* 'toggle' rows.
C33_ToggleReversible ==
    [][ToggleStep =>
        LET staff_id == response'.request[2] IN
        /\ OnlyFlagFlipped(staff_id)
        /\ UNCHANGED <<users, docVars, acknowledgments, learnVars>>
        /\ AuditedOnce(response'.request[1], "toggle", "staff", staff_id)
        /\ toggle_active(staff', staff_id) = staff]_vars

\* C33 witness: a member who had acknowledged a document was toggled twice
\* in a row; the member is active again and counted, and audit_log ends
\* with the two 'toggle' rows
C33_Witness ==
    /\ response.handler = "admin_staff_toggle"
    /\ Len(audit_log) >= 2
    /\ LET staff_id == response.request[2]
           last == audit_log[Len(audit_log)]
           before == audit_log[Len(audit_log) - 1] IN
        /\ last.action = "toggle" /\ last.entity_id = staff_id
        /\ before.action = "toggle" /\ before.entity_id = staff_id
        /\ staff = InitStaff
        /\ \E sop_id \in SopIds :
            /\ AcksOf(sop_id, staff_id) # {}
            /\ <<sop_id, staff_id>> \in latest_pairs(<<>>, <<>>)

-----------------------------------------------------------------------------
(* Counted and overdue members of a document                               *)

\* the members counted in ack_by_sop for the document
CountedStaff(sop_id, start_date, end_date) ==
    {p[2] : p \in {q \in latest_pairs(start_date, end_date) : q[1] = sop_id}}

\* C34: for every document and every reporting window with at least one
\* active staff member, each active member is either counted in the
\* document's acknowledged count or on its overdue list, never both and
\* never neither: ack_by_sop[d] + |missing(d)| = number of active staff.
C34_CountedOrOverdue ==
    \A start_date \in DateArgs, end_date \in DateArgs, sop_id \in SopIds :
        ActiveStaff # {} =>
            LET counted == CountedStaff(sop_id, start_date, end_date)
                missing == missing_staff(sop_id, start_date, end_date) IN
            /\ counted \cap missing = {}
            /\ counted \cup missing = ActiveStaff
            /\ ack_by_sop(sop_id, start_date, end_date) = Cardinality(counted)
            /\ ack_by_sop(sop_id, start_date, end_date) + Cardinality(missing) = staff_count

\* C34 witness: of two active members one acknowledged the document on day
\* 0 and is counted when no dates are given, but is overdue like the other
\* in the window that starts on day 1
C34_Witness ==
    \E sop_id \in SopIds :
        /\ staff_count = 2
        /\ ack_by_sop(sop_id, <<>>, <<>>) = 1
        /\ Cardinality(missing_staff(sop_id, <<>>, <<>>)) = 1
        /\ ack_by_sop(sop_id, <<1>>, <<>>) = 0
        /\ Cardinality(missing_staff(sop_id, <<1>>, <<>>)) = 2

-----------------------------------------------------------------------------
(* The roll-ups over merged documents: documents are created under both    *)
(* titles and imported (an import merges the acknowledgments of duplicate  *)
(* documents into the kept one), staff acknowledge and are (de)activated.  *)

NextMerge == CreateDocument \/ ImportDocuments \/ AcknowledgeRead \/ ToggleStaff

SpecMerge == Init /\ [][NextMerge]_vars

\* C35: each (document, active member) pair is counted at most once however
\* many acknowledgments it has, also after import_sops has merged the
\* acknowledgments of dropped documents into the kept one: every
\* per-document count is at most the number of active staff, and
\* overall_percent lies in [0, 100].
C35_PairsCountedOnce ==
    \A start_date \in DateArgs, end_date \in DateArgs :
        LET view == compliance_dashboard(start_date, end_date) IN
        /\ \A sop_id \in SopIds :
            /\ view.ack_by_sop[sop_id] <= view.staff_count
            /\ view.ack_by_sop[sop_id] =
                    Cardinality({s \in ActiveStaff :
                                    AckedInWindow(sop_id, s, start_date, end_date)})
        /\ total_ack_pairs(start_date, end_date) <= total_required
        /\ view.overall_percent[2] > 0
        /\ view.overall_percent[1] >= 0
        /\ view.overall_percent[1] <= 100 * view.overall_percent[2]

\* C35 witness: a member acknowledged both of two documents with the same
\* cleaned title, the import merged them, and the kept document counts the
\* member once
C35_Witness ==
    \E sop_id \in SopIds, s \in ActiveStaff :
        /\ response.handler = "import_sops"
        /\ sops_seq = 2
        /\ SopIds = {sop_id}
        /\ Cardinality(AcksOf(sop_id, s)) = 2
        /\ ack_by_sop(sop_id, <<>>, <<>>) = 1
        /\ overall_percent(<<>>, <<>>) = <<100, 2>>

-----------------------------------------------------------------------------
(* The roll-ups by document, by category and by member: documents of two   *)
(* categories are created, staff acknowledge and are (de)activated, days   *)
(* pass.                                                                   *)

DashboardCategories == {"Operations", "Client Care"}

CreateInCategory ==
    \E u \in Admins, c \in DashboardCategories :
        CanAudit /\ sops_seq < MaxSops /\ admin_create(u, "Intake", c, "c1")

NextCategories == CreateInCategory \/ AcknowledgeRead \/ ToggleStaff \/ TickDay

SpecCategories == Init /\ [][NextCategories]_vars

\* the sum of f over the set S
RECURSIVE SumOver(_, _)
SumOver(f, S) ==
    IF S = {} THEN 0
    ELSE LET x == CHOOSE y \in S : TRUE IN f[x] + SumOver(f, S \ {x})

\* the categories of the sops table (the keys of sop_counts_by_category)
SopCategories == {sops[id].category : id \in SopIds}

\* C36: the roll-ups of compliance_dashboard agree with each other: in every
\* state and for every window, the sum over the active staff of their
\* per-staff acked count, the sum over the documents of the per-document
\* count (total_ack_pairs) and the sum of the per-category counts are equal.
C36_RollupsAgree ==
    \A start_date \in DateArgs, end_date \in DateArgs :
        LET view == compliance_dashboard(start_date, end_date)
            by_staff == SumOver([s \in ActiveStaff |-> view.staff_completion[s].acked],
                                ActiveStaff)
            by_sop == SumOver([id \in SopIds |-> view.ack_by_sop[id]], SopIds)
            by_category == SumOver([c \in SopCategories |->
                                        ack_by_category(c, start_date, end_date)],
                                   SopCategories)
        IN  /\ by_sop = total_ack_pairs(start_date, end_date)
            /\ by_staff = by_sop
            /\ by_category = by_sop

\* C36 witness: documents of two categories, each acknowledged by an active
\* member, one of the acknowledgments before the start of the window
C36_Witness ==
    /\ Cardinality(SopCategories) = 2
    /\ \A c \in SopCategories : ack_by_category(c, <<>>, <<>>) > 0
    /\ total_ack_pairs(<<>>, <<>>) = 2
    /\ total_ack_pairs(<<1>>, <<>>) = 1

-----------------------------------------------------------------------------
(* References to documents across the deduplication of import_sops         *)

ImportStep == response'.handler = "import_sops" /\ now' = now

AcksReferToDocuments ==
    \A i \in DOMAIN acknowledgments : acknowledgments[i].sop_id \in SopIds

VersionsReferToDocuments ==
    \A i \in DOMAIN sop_versions : sop_versions[i].sop_id \in SopIds

ModulesReferToDocuments ==
    \A m \in DOMAIN training_modules : training_modules[m].sop_id \in SopIds

\* the acknowledgments the step re-pointed carry a version the kept document has
RepointedWithinVersions ==
    \A i \in DOMAIN acknowledgments :
        acknowledgments'[i].sop_id # acknowledgments[i].sop_id =>
            /\ acknowledgments'[i].sop_id \in DOMAIN sops'
            /\ acknowledgments'[i].sop_version <=
                    sops'[acknowledgments'[i].sop_id].current_version

\* C37: referential integrity survives deduplication: after every run of
\* import_sops every acknowledgment, every sop_versions row and every training
\* module references a document that still exists, and every acknowledgment
\* the run re-pointed has a sop_version of at most the kept document's
\* current_version.
C37_ReferencesSurviveImport ==
    [][ImportStep =>
        /\ AcksReferToDocuments'
        /\ VersionsReferToDocuments'
        /\ ModulesReferToDocuments'
        /\ RepointedWithinVersions]_vars

-----------------------------------------------------------------------------
(* Recertification over time: the module of one document, with recert_days *)
(* 1 or 30, is attempted by a linked user while the clock advances in     *)
(* 12-hour steps and module_status is called.                              *)

InitRecert ==
    /\ users = InitUsers
    /\ staff = InitStaff
    /\ sops = (1 :> SopRow("Intake", "Operations", "c1", 1))
    /\ sops_seq = 1
    /\ sop_versions = <<VersionRow(1, 1, "Intake", "Operations", "c1", 1)>>
    /\ acknowledgments = <<>>
    /\ \E r \in RecertChoices : training_modules = <<ModuleRow(1, 80, r)>>
    /\ training_questions = (1 :> "A")
    /\ training_attempts = <<>>
    /\ audit_log = HistoryAudit(<<>>)
    /\ now = 0
    /\ response = [handler |-> "none", request |-> <<>>, result |-> <<>>]
    /\ threads = NoRequests

SubmitRecert ==
    /\ Len(training_attempts) < MaxHistory
    /\ \E answer \in Answers : learning_module_submit(2, 1, answer)

TickRecert == now + HalfDay <= MaxDays * SecondsPerDay /\ Tick(HalfDay)

NextRecert == SubmitRecert \/ TickRecert \/ CallModuleStatus

SpecRecert == InitRecert /\ [][NextRecert]_vars

\* the status module_status derives from the attempt it selected as the last
StatusFrom(last, module_id) ==
    StatusOf(training_attempts[last], training_modules[module_id].recert_days)

\* C38: with the attempt history and recert_days held fixed, the status of a
\* pair changes in one direction only as time advances: in every step that
\* leaves training_attempts and training_modules unchanged, a last attempt
\* from which module_status returned due gives due afterwards as well; and
\* the status of a pair goes from due back to passed only in a step that
\* records a new passing attempt of the pair.
C38_DueUntilNewPass ==
    [][\A p \in Pairs :
        /\ (training_attempts' = training_attempts /\ training_modules' = training_modules) =>
            /\ \A last \in FirstByAttemptedAtDesc(AttemptsOf(p[1], p[2])) :
                StatusFrom(last, p[1]) = "due" => StatusFrom(last, p[1])' = "due"
            /\ Statuses(p[1], p[2]) = {"due"} => Statuses(p[1], p[2])' = {"due"}
        /\ (Statuses(p[1], p[2]) = {"due"} /\ "passed" \in Statuses(p[1], p[2])') =>
            \E i \in AttemptsOf(p[1], p[2])' \ AttemptsOf(p[1], p[2]) :
                training_attempts'[i].passed = 1]_vars

\* C38 witness: module_status returned due for a pair whose only attempt is
\* a pass that is past its recertification date
C38_Witness ==
    \E p \in Pairs :
        /\ response.handler = "module_status"
        /\ response.request = <<p[1], p[2], now>>
        /\ response.result[1] = "due"
        /\ Cardinality(AttemptsOf(p[1], p[2])) = 1
        /\ \A i \in AttemptsOf(p[1], p[2]) :
            /\ training_attempts[i].passed = 1
            /\ DateOf(training_attempts[i].attempted_at)
                    + training_modules[p[1]].recert_days < Today

\* C38 witness of the way back: the pair has a pass past its recertification
\* date and a later pass, and module_status returned passed
C38_WitnessBack ==
    \E p \in Pairs :
        /\ response.handler = "module_status"
        /\ response.request = <<p[1], p[2], now>>
        /\ response.result[1] = "passed"
        /\ \E i \in AttemptsOf(p[1], p[2]) :
            /\ training_attempts[i].passed = 1
            /\ DateOf(training_attempts[i].attempted_at)
                    + training_modules[p[1]].recert_days < Today
-----------------------------------------------------------------------------
(* The start of the reporting window                                       *)

\* the start_date texts of a request: none, the text of day 1, and a text
\* strptime rejects
StartTexts == DateArgs \cup {<<1, 0>>}

cutoff == Today - REACK_DAYS

\* the start_date is given and is unparsable or a date before the cutoff
BeforeCutoff(start_date) ==
    /\ start_date # <<>>
    /\ strptime(start_date) # <<>> => strptime(start_date)[1] < cutoff

\* C39: the reporting window never reaches back past the re-acknowledgment
\* cutoff: the effective start is the later of today - REACK_DAYS and the
\* start_date, no acknowledgment older than the cutoff is counted, and a
\* start_date earlier than the cutoff, or an unparsable one, gives exactly
\* the counts of a request without start_date.
C39_WindowStartsAtCutoff ==
    \A start_date \in StartTexts, end_date \in DateArgs :
        /\ effective_start(start_date) >= cutoff
        /\ strptime(start_date) # <<>> =>
                effective_start(start_date) = Max({cutoff, strptime(start_date)[1]})
        /\ \A p \in latest_pairs(start_date, end_date) :
                \E i \in AcksOf(p[1], p[2]) :
                    DateOf(acknowledgments[i].acknowledged_at) >= cutoff
        /\ BeforeCutoff(start_date) =>
                compliance_dashboard(start_date, end_date)
                    = compliance_dashboard(<<>>, end_date)

\* C39 witness: an acknowledgment of day 1 is older than the cutoff; a
\* request with start_date day 1 does not count it, although it is not before
\* day 1, and another acknowledgment is counted
C39_Witness ==
    /\ BeforeCutoff(<<1>>)
    /\ \E i \in DOMAIN acknowledgments :
        /\ DateOf(acknowledgments[i].acknowledged_at) = 1
        /\ acknowledgments[i].staff_id \in ActiveStaff
        /\ <<acknowledgments[i].sop_id, acknowledgments[i].staff_id>>
                \notin latest_pairs(<<1>>, <<>>)
    /\ total_ack_pairs(<<1>>, <<>>) = 1
    /\ total_ack_pairs(<<1, 0>>, <<>>) = 1

====
